---- MODULE Spec2Model ----
(***************************************************************************)
(* A model of the Rexpay V3 card-payment service.                          *)
(*                                                                         *)
(*  - executeWithRetry, the retry executor every gateway call goes         *)
(*    through (RexpayV3Service.ts).                                        *)
(***************************************************************************)
EXTENDS Integers, Sequences, FiniteSets, TLC

VARIABLES
    rx,         \* the frame of one executeWithRetry call (SpecRetry)
    metrics,    \* this.subaccountMetrics: the Map's entries in insertion order
    now,        \* Date.now()
    task,       \* the service calls in flight: one record per logical task
    startTime,  \* this.startTime
    ops,        \* number of service calls started so far
    adjusts,    \* number of adjustSubaccountMetrics calls so far
    life,       \* per caller, the lifecycle state of its payment as the results returned tell it (SpecLife)
    recorded,   \* per uuid, the updateSubaccountMetrics calls made: all, and those with success (SpecC)
    sx,         \* one status mapped by one of the service calls (SpecStatus)
    cx,         \* one encrypt call and the decrypt call on what it returned (SpecCodec)
    fx,         \* one call of a function of the service and what it gave (SpecClassify, SpecAmount)
    config,     \* config.providers.rexpay: encryption_key and encryption_iv, read from the environment at load
    sink        \* per caller, when its call began and the processingTime it gave to this.metrics (SpecTime)

retryVars == <<rx>>
svcVars == <<metrics, now, startTime, task, ops, adjusts, recorded, life, config, sink>>
codecVars == <<cx>>
statusVars == <<sx>>
fnVars == <<fx>>
vars == <<rx, metrics, now, startTime, task, ops, adjusts, recorded, life, cx, sx, fx, config, sink>>

(***************************************************************************)
(* Program constants.                                                      *)
(***************************************************************************)
MAX_RETRIES == 3
INITIAL_RETRY_DELAY == 1000

(***************************************************************************)
(* Strings.  A string whose characters matter one by one is the sequence   *)
(* of its UTF-16 code units; CodeUnits turns a string of letters, digits,  *)
(* '-' and '_' into that sequence.                                         *)
(***************************************************************************)
UpperLetters == "ABCDEFGHIJKLMNOPQRSTUVWXYZ"
LowerLetters == "abcdefghijklmnopqrstuvwxyz"
Digits == "0123456789"

\* the character at position i of a string
CharAt(str, i) == SubSeq(str, i, i)

Occurs(str, c) == \E i \in 1..Len(str) : CharAt(str, i) = c
IndexIn(str, c) == CHOOSE i \in 1..Len(str) : CharAt(str, i) = c

\* String.prototype.charCodeAt
CharCode(c) ==
    CASE Occurs(Digits, c) -> 47 + IndexIn(Digits, c)
      [] Occurs(UpperLetters, c) -> 64 + IndexIn(UpperLetters, c)
      [] Occurs(LowerLetters, c) -> 96 + IndexIn(LowerLetters, c)
      [] c = "-" -> 45
      [] c = "_" -> 95

CodeUnits(str) == [i \in 1..Len(str) |-> CharCode(CharAt(str, i))]

\* config.providers.rexpay.encryption_key and encryption_iv
CfgKey == CodeUnits("encryption_key")
CfgIv == CodeUnits("a")

\* process.env.REXPAY_ENCRYPTION_KEY and REXPAY_ENCRYPTION_IV as deployed
DefaultConfig == [encryption_key |-> CfgKey, encryption_iv |-> CfgIv]

(***************************************************************************)
(* What an invocation of the operation can settle with.  A failure is the  *)
(* rejection axios produces: an HTTP status, a transport code, or a plain  *)
(* Error thrown by the operation itself.  A success carries a value.       *)
(***************************************************************************)
FailKinds == {"400", "404", "429", "500", "ECONNABORTED", "ENOTFOUND", "Error"}
SuccessVals == {"v1", "v2"}

\* the payload of an answer: a plain value, or the fields of a gateway reply
NoBody == [val |-> "", list |-> <<>>, status |-> "", gw |-> ""]

Success(v) == [ok |-> TRUE, kind |-> "ok", body |-> [NoBody EXCEPT !.val = v], at |-> 0]
Failure(k) == [ok |-> FALSE, kind |-> k, body |-> NoBody, at |-> 0]

RetryAnswers == {Success(v) : v \in SuccessVals} \cup {Failure(k) : k \in FailKinds}

\* No value yet (the promise is pending).
Pending == [ok |-> FALSE, kind |-> "pending", body |-> NoBody, at |-> 0]

\* new Error('All retry attempts exhausted'), thrown after the loop.
ExhaustedError ==
    [ok |-> FALSE, kind |-> "All retry attempts exhausted", body |-> NoBody, at |-> 0]

RECURSIVE Pow2(_)
Pow2(n) == IF n = 0 THEN 1 ELSE 2 * Pow2(n - 1)

(***************************************************************************)
(* executeWithRetry as a frame that is stepped once per await.             *)
(*   st      "calling"  : about to invoke operation()                      *)
(*           "sleeping" : awaiting the backoff timer                       *)
(*           "returned" / "thrown" : the promise settled with out          *)
(*   n       how many times operation() has been invoked                   *)
(*   out     what the call settled with; the result of the i-th invocation *)
(*           carries at = i, the identity of that result object            *)
(*   calls   what every invocation of operation() settled with, in order   *)
(*   slept   the delays awaited so far, in ms                              *)
(* calls and slept are a log of the call, kept when keep is set.           *)
(***************************************************************************)
RetryLoopTest(attempt, retries) == attempt <= retries

RetryStart(retries) ==
    [retries |-> retries, attempt |-> 0, n |-> 0,
     keep |-> FALSE, calls |-> <<>>, slept |-> <<>>,
     st  |-> IF RetryLoopTest(0, retries) THEN "calling" ELSE "thrown",
     out |-> IF RetryLoopTest(0, retries) THEN Pending ELSE ExhaustedError]

RetryExhaustedEarly(f) == f.attempt + 1 >= f.retries

\* attempt === retries
RetryExhausted(f) == f.attempt = f.retries

RetryDelayLinear(attempt) == INITIAL_RETRY_DELAY * (attempt + 1)

\* this.INITIAL_RETRY_DELAY * Math.pow(2, attempt)
RetryDelay(attempt) == INITIAL_RETRY_DELAY * Pow2(attempt)

\* the catch block: f.calls already holds the failed invocation, error is
\* the value it rejected with.
RetryCatchFirstError(f, error) ==
    IF RetryExhausted(f)
    THEN [f EXCEPT !.st = "thrown", !.out = f.calls[1]]
    ELSE [f EXCEPT !.st = "sleeping",
                   !.slept = IF f.keep THEN Append(@, RetryDelay(f.attempt)) ELSE @]

RetryCatch(f, error) ==
    IF RetryExhausted(f)
    THEN [f EXCEPT !.st = "thrown", !.out = error]
    ELSE [f EXCEPT !.st = "sleeping",
                   !.slept = IF f.keep THEN Append(@, RetryDelay(f.attempt)) ELSE @]

\* one pass through the try: operation() settles with answer a.
RetryAttempt(f, a) ==
    LET r == [a EXCEPT !.at = f.n + 1]
        g == [f EXCEPT !.n = @ + 1, !.calls = IF f.keep THEN Append(@, r) ELSE @]
    IN  IF r.ok THEN [g EXCEPT !.st = "returned", !.out = r]
        ELSE RetryCatch(g, r)

RetryResumeSameAttempt(f) == [f EXCEPT !.st = "calling"]

\* the timer fired: attempt++ and the loop test.
RetryResume(f) ==
    IF RetryLoopTest(f.attempt + 1, f.retries)
    THEN [f EXCEPT !.attempt = @ + 1, !.st = "calling"]
    ELSE [f EXCEPT !.attempt = @ + 1, !.st = "thrown", !.out = ExhaustedError]

(***************************************************************************)
(* SpecRetry: one executeWithRetry call over every pattern of answers.     *)
(* The callers all pass the default, retries = MAX_RETRIES; the smaller    *)
(* policies are the same loop.                                             *)
(***************************************************************************)
InitRetry ==
    /\ \E r \in 0..MAX_RETRIES : rx = [RetryStart(r) EXCEPT !.keep = TRUE]
    /\ metrics = <<>> /\ now = 0 /\ startTime = 0 /\ task = <<>> /\ config = DefaultConfig /\ sink = <<>>
    /\ ops = 0 /\ adjusts = 0 /\ recorded = <<>> /\ life = <<>>
    /\ cx = <<>> /\ sx = <<>> /\ fx = <<>>

RxAttempt ==
    /\ rx.st = "calling"
    /\ \E a \in RetryAnswers : rx' = RetryAttempt(rx, a)
    /\ UNCHANGED <<svcVars, codecVars, statusVars, fnVars>>

RxResume ==
    /\ rx.st = "sleeping"
    /\ rx' = RetryResume(rx)
    /\ UNCHANGED <<svcVars, codecVars, statusVars, fnVars>>

NextRetry == RxAttempt \/ RxResume

SpecRetry == InitRetry /\ [][NextRetry]_vars

(***************************************************************************)
(* Numbers.  A success rate is written as the pair <<n, d>> of the two     *)
(* integers whose quotient it is, d > 0.  Two rates compare as their       *)
(* quotients do: with integers of this size, rounding the quotients to     *)
(* doubles keeps their order and keeps different quotients different.      *)
(***************************************************************************)
RatLT(a, b) == a[1] * b[2] < b[1] * a[2]
RatEq(a, b) == a[1] * b[2] = b[1] * a[2]
RatLE(a, b) == a[1] * b[2] <= b[1] * a[2]

(***************************************************************************)
(* Numbers.  A JavaScript number is an IEEE 754 double.  A finite double   *)
(* is kept as [neg, m, e]: its value is m * 2^e with 2^52 <= m < 2^53, or  *)
(* m = 0 for zero; m is a natural number written in base 2^15, least       *)
(* significant digit first, because it does not fit the model's integers.  *)
(* Every operation computes the exact result and rounds it to the nearest  *)
(* double, ties to the even mantissa.                                      *)
(***************************************************************************)
Base == Pow2(15)
BaseBits == CHOOSE k \in 1..30 : Pow2(k) = Base

RECURSIVE BigNorm(_)
BigNorm(x) == IF x = <<>> \/ x[Len(x)] # 0 THEN x ELSE BigNorm(SubSeq(x, 1, Len(x) - 1))

\* a natural number below 2^31
BigOfInt(n) == BigNorm(<<n % Base, (n \div Base) % Base, n \div (Base * Base)>>)

RECURSIVE BigAddC(_, _, _)
BigAddC(x, y, c) ==
    IF x = <<>> /\ y = <<>> THEN (IF c = 0 THEN <<>> ELSE <<c>>)
    ELSE LET a == IF x = <<>> THEN 0 ELSE Head(x)
             b == IF y = <<>> THEN 0 ELSE Head(y)
             s == a + b + c
         IN  <<s % Base>> \o BigAddC(IF x = <<>> THEN x ELSE Tail(x),
                                     IF y = <<>> THEN y ELSE Tail(y), s \div Base)

BigAdd(x, y) == BigAddC(x, y, 0)

\* x - y for x >= y
RECURSIVE BigSubC(_, _, _)
BigSubC(x, y, c) ==
    IF x = <<>> THEN <<>>
    ELSE LET b == IF y = <<>> THEN 0 ELSE Head(y)
             s == Head(x) - b - c
         IN  <<s % Base>> \o BigSubC(Tail(x), IF y = <<>> THEN y ELSE Tail(y),
                                     IF s < 0 THEN 1 ELSE 0)

BigSub(x, y) == BigNorm(BigSubC(x, y, 0))

\* -1, 0, 1 as x is below, equal to, above y (both without leading zeros)
RECURSIVE BigCmpFrom(_, _, _)
BigCmpFrom(x, y, i) ==
    IF i = 0 THEN 0
    ELSE IF x[i] < y[i] THEN -1
    ELSE IF x[i] > y[i] THEN 1
    ELSE BigCmpFrom(x, y, i - 1)

BigCmp(x, y) ==
    IF Len(x) < Len(y) THEN -1
    ELSE IF Len(x) > Len(y) THEN 1
    ELSE BigCmpFrom(x, y, Len(x))

\* x * k for 0 <= k < Base
RECURSIVE BigMulSmallC(_, _, _)
BigMulSmallC(x, k, c) ==
    IF x = <<>> THEN (IF c = 0 THEN <<>> ELSE <<c>>)
    ELSE LET s == Head(x) * k + c
         IN  <<s % Base>> \o BigMulSmallC(Tail(x), k, s \div Base)

BigMulSmall(x, k) == IF k = 0 THEN <<>> ELSE BigMulSmallC(x, k, 0)

RECURSIVE BigMul(_, _)
BigMul(x, y) ==
    IF x = <<>> \/ y = <<>> THEN <<>>
    ELSE BigAdd(BigMulSmall(y, Head(x)),
                LET rest == BigMul(Tail(x), y)
                IN  IF rest = <<>> THEN rest ELSE <<0>> \o rest)

\* <<quotient, remainder>> of x by n, 0 < n <= 2 * Base
RECURSIVE BigDivSmallFrom(_, _, _, _)
BigDivSmallFrom(x, n, i, r) ==
    IF i = 0 THEN <<<<>>, r>>
    ELSE LET cur == r * Base + x[i]
             low == BigDivSmallFrom(x, n, i - 1, cur % n)
         IN  <<Append(low[1], cur \div n), low[2]>>

BigDivSmall(x, n) ==
    LET Normal(qr) == <<BigNorm(qr[1]), qr[2]>>
    IN  Normal(BigDivSmallFrom(x, n, Len(x), 0))

BigShl(x, bits) ==
    IF x = <<>> THEN x
    ELSE [i \in 1..(bits \div BaseBits) |-> 0] \o BigMulSmall(x, Pow2(bits % BaseBits))

\* <<floor(x / 2^bits), whether bits were lost>>
BigShr(x, bits) ==
    LET k == bits \div BaseBits
        kept == IF k >= Len(x) THEN <<>> ELSE SubSeq(x, k + 1, Len(x))
        lostDigits == \E i \in 1..(IF k >= Len(x) THEN Len(x) ELSE k) : x[i] # 0
        Shifted(qr) == <<qr[1], lostDigits \/ qr[2] # 0>>
    IN  Shifted(BigDivSmall(kept, Pow2(bits % BaseBits)))

RECURSIVE BitLenInt(_)
BitLenInt(n) == IF n = 0 THEN 0 ELSE 1 + BitLenInt(n \div 2)

BigBitLen(x) == IF x = <<>> THEN 0 ELSE BaseBits * (Len(x) - 1) + BitLenInt(x[Len(x)])

BigIsOdd(x) == x # <<>> /\ x[1] % 2 = 1

\* the digit q with q * y <= cur < (q + 1) * y, counted down from a guess
\* that is not below it
RECURSIVE BigDigitDown(_, _, _)
BigDigitDown(cur, y, guess) ==
    IF BigCmp(BigMulSmall(y, guess), cur) > 0 THEN BigDigitDown(cur, y, guess - 1) ELSE guess

\* long division of the digits x[1..i] below the remainder r so far, by a
\* y whose leading digit is at least Base / 2: the guess made from the two
\* leading digits is then at most 2 above the digit
RECURSIVE BigLongDiv(_, _, _, _)
BigLongDiv(x, y, i, r) ==
    IF i = 0 THEN <<<<>>, r>>
    ELSE LET n == Len(y)
             Lead(cur) == (IF Len(cur) > n THEN cur[n + 1] ELSE 0) * Base
                             + (IF Len(cur) >= n THEN cur[n] ELSE 0)
             Guess(lead) == IF lead \div y[n] >= Base THEN Base - 1 ELSE lead \div y[n]
             Below(low, digit) == <<Append(low[1], digit), low[2]>>
             \* the remainder is computed before the digits below it are
             Rest(cur, digit) ==
                 CHOOSE qr \in {Below(BigLongDiv(x, y, i - 1, rem), digit) :
                                   rem \in {BigSub(cur, BigMulSmall(y, digit))}} : TRUE
             Digit(cur) == Rest(cur, BigDigitDown(cur, y, Guess(Lead(cur))))
         IN  Digit(BigNorm(<<x[i]>> \o r))

\* <<quotient, remainder>> of x by y # 0
BigDivMod(x, y) ==
    IF Len(y) = 1
    THEN LET Small(qr) == <<qr[1], BigOfInt(qr[2])>>
         IN  Small(BigDivSmall(x, y[1]))
    ELSE LET s == BaseBits - BitLenInt(y[Len(y)])
             Long(qr) == <<BigNorm(qr[1]), BigShr(qr[2], s)[1]>>
             Scaled(xs, ys) == Long(BigLongDiv(xs, ys, Len(xs), <<>>))
         IN  Scaled(BigShl(x, s), BigShl(y, s))

\* how many times 2 divides x # 0
RECURSIVE TwosInt(_)
TwosInt(n) == IF n % 2 = 1 THEN 0 ELSE 1 + TwosInt(n \div 2)

RECURSIVE BigTwos(_)
BigTwos(x) == IF Head(x) = 0 THEN BaseBits + BigTwos(Tail(x)) ELSE TwosInt(Head(x))

DblZero == [neg |-> FALSE, m |-> <<>>, e |-> 0]

\* the double nearest to n * 2^e (n a natural number in base 2^15), or to
\* a value just above it when sticky is set
DblRound(neg, n, e, sticky) ==
    LET \* r: the 53 leading bits of n, rounded, which may have made them 54
        Carried(r, shift) ==
            IF BigBitLen(r) = 54
            THEN [neg |-> neg, m |-> BigShr(r, 1)[1], e |-> e + shift + 1]
            ELSE [neg |-> neg, m |-> r, e |-> e + shift]
        \* q: the 53 leading bits; qs: the 54 leading bits and whether bits
        \* were lost below them.  Ties go to the even mantissa.
        Nearest(q, qs, shift) ==
            Carried(IF BigIsOdd(qs[1]) /\ (qs[2] \/ sticky \/ BigIsOdd(q))
                    THEN BigAdd(q, <<1>>) ELSE q, shift)
        Halved(qs, shift) == Nearest(BigShr(qs[1], 1)[1], qs, shift)
        Sized(len) ==
            IF len <= 53
            THEN [neg |-> neg, m |-> BigShl(n, 53 - len), e |-> e - (53 - len)]
            ELSE Halved(BigShr(n, len - 54), len - 53)
    IN  IF n = <<>> THEN DblZero ELSE Sized(BigBitLen(n))

\* an integer of the model as a double
DblOfInt(i) ==
    DblRound(i < 0, BigOfInt(IF i < 0 THEN -i ELSE i), 0, FALSE)

\* a * b
DblMul(a, b) == DblRound(a.neg # b.neg, BigMul(a.m, b.m), a.e + b.e, FALSE)

\* a / b, b # 0
DblDiv(a, b) ==
    IF a.m = <<>> THEN DblZero
    ELSE LET Quotient(qr, twos) ==
                 DblRound(a.neg # b.neg, qr[1], a.e - 56 - b.e - twos, qr[2] # <<>>)
             Odd(twos) ==
                 Quotient(BigDivMod(BigShl(a.m, 56), BigShr(b.m, twos)[1]), twos)
         IN  Odd(BigTwos(b.m))

\* -1, 0, 1 as |a| is below, equal to, above |b|
DblCmpAbs(a, b) ==
    IF a.m = <<>> \/ b.m = <<>>
    THEN (IF a.m = b.m THEN 0 ELSE IF a.m = <<>> THEN -1 ELSE 1)
    ELSE IF a.e < b.e THEN -1
    ELSE IF a.e > b.e THEN 1
    ELSE BigCmp(a.m, b.m)

\* a < b
DblLT(a, b) ==
    LET an == a.neg /\ a.m # <<>>
        bn == b.neg /\ b.m # <<>>
    IN  IF an # bn THEN an
        ELSE IF an THEN DblCmpAbs(a, b) > 0
        ELSE DblCmpAbs(a, b) < 0

DblEq(a, b) == ~DblLT(a, b) /\ ~DblLT(b, a)
DblLE(a, b) == ~DblLT(b, a)

\* |a| + |b| or |a| - |b| (for |a| >= |b|), with the sign given
DblAddAbs(neg, a, b, minus) ==
    IF b.m = <<>> THEN [a EXCEPT !.neg = neg]
    ELSE LET gap == a.e - b.e
             far == gap > 60
             Sum(wide) ==
                 IF far THEN (IF minus THEN BigSub(wide, <<1>>) ELSE wide)
                 ELSE IF minus THEN BigSub(wide, b.m) ELSE BigAdd(wide, b.m)
         IN  DblRound(neg, Sum(BigShl(a.m, IF far THEN 3 ELSE gap)),
                      IF far THEN a.e - 3 ELSE b.e, far)

\* a + b
DblAdd(a, b) ==
    LET Ordered(big, small) ==
            IF big.m = <<>> THEN DblZero
            ELSE DblAddAbs(big.neg, big, small, a.neg # b.neg)
    IN  IF DblCmpAbs(a, b) >= 0 THEN Ordered(a, b) ELSE Ordered(b, a)

\* a - b
DblSub(a, b) == DblAdd(a, [b EXCEPT !.neg = ~b.neg])

\* Math.min(a, b), Math.max(a, b)
MathMin(a, b) == IF DblLT(b, a) THEN b ELSE a
MathMax(a, b) == IF DblLT(a, b) THEN b ELSE a

RECURSIVE BigToInt(_)
BigToInt(x) == IF x = <<>> THEN 0 ELSE Head(x) + Base * BigToInt(Tail(x))

\* Math.round(a) as an integer of the model: floor(a + 1/2), computed exactly
MathRound(a) ==
    IF a.m = <<>> THEN 0
    ELSE IF a.e >= 0 THEN (IF a.neg THEN -1 ELSE 1) * BigToInt(BigShl(a.m, a.e))
    ELSE LET \* i: the whole part; twice: the halves in a, and whether a
             \* lies above the last of them
             Rounded(i, twice) ==
                 IF a.neg
                 THEN -(IF BigIsOdd(twice[1]) /\ twice[2] THEN i + 1 ELSE i)
                 ELSE IF BigIsOdd(twice[1]) THEN i + 1 ELSE i
         IN  Rounded(BigToInt(BigShr(a.m, -a.e)[1]), BigShr(a.m, -a.e - 1))

\* the double of the quotient n / d of two integers of the model
DblOfQuotient(n, d) == DblDiv(DblOfInt(n), DblOfInt(d))

\* a rate <<n, d>> as the double it is stored as
RateValue(r) == DblOfQuotient(r[1], r[2])

\* the literals 0.7 and 0.3
Dbl07 == DblOfQuotient(7, 10)
Dbl03 == DblOfQuotient(3, 10)

\* Math.max(0, Math.min(1, x))
Clamp01(x) ==
    IF RatLT(x, <<0, 1>>) THEN <<0, 1>>
    ELSE IF RatLT(<<1, 1>>, x) THEN <<1, 1>>
    ELSE x

(***************************************************************************)
(* The subaccount selector of RexpayV3Service.ts.                          *)
(***************************************************************************)
Ids == {"A", "B"}

\* the entry selectOptimalSubaccount creates for a uuid it has not seen
NewMetrics(uuid) ==
    [uuid |-> uuid, successRate |-> <<1, 1>>, lastUsed |-> 0,
     totalTransactions |-> 0, successfulTransactions |-> 0]

Has(m, uuid) == \E i \in 1..Len(m) : m[i].uuid = uuid

IndexOf(m, uuid) == CHOOSE i \in 1..Len(m) : m[i].uuid = uuid

InList(list, uuid) == \E i \in 1..Len(list) : list[i] = uuid

RECURSIVE RegisterResetting(_, _)
RegisterResetting(m, list) ==
    IF list = <<>> THEN m
    ELSE RegisterResetting(IF Has(m, Head(list))
                           THEN [m EXCEPT ![IndexOf(m, Head(list))] = NewMetrics(Head(list))]
                           ELSE Append(m, NewMetrics(Head(list))),
                           Tail(list))

\* subaccounts.forEach(sub => if (!has(sub.uuid)) set(sub.uuid, {...}))
RECURSIVE Register(_, _)
Register(m, list) ==
    IF list = <<>> THEN m
    ELSE Register(IF Has(m, Head(list)) THEN m ELSE Append(m, NewMetrics(Head(list))),
                  Tail(list))

(***************************************************************************)
(* Bounds of the service model's clock and calls.                          *)
(***************************************************************************)
T0 == 1000          \* Date.now() when the service is constructed
MaxTicks == 1       \* milliseconds the clock advances
MaxOps == 2         \* service calls started
MaxAdjusts == 1     \* adjustSubaccountMetrics calls

\* rate * 0.7 + (1 / age) * 0.3, in doubles
ScoreOf(rate, age) ==
    DblAdd(DblMul(RateValue(rate), Dbl07),
           DblMul(DblDiv(DblOfInt(1), DblOfInt(age)), Dbl03))

\* the scores of the rates and ages met within the bounds, computed once
\* and kept as a table (@@ makes the function a stored value)
ScoreRates == (0..(MaxOps + 2)) \X (1..(MaxOps + 2))
ScoreAges == (1..(MaxTicks + 2)) \cup (T0..(T0 + MaxTicks + 2))
ScoreKeys == ScoreRates \X ScoreAges
ScoreTable == [k \in ScoreKeys |-> ScoreOf(k[1], k[2])] @@ <<>>

\* a.successRate * 0.7 + (1 / (now - a.lastUsed + 1)) * 0.3
WeightedScore(e, t) ==
    LET k == <<e.successRate, t - e.lastUsed + 1>>
    IN  IF k \in ScoreKeys THEN ScoreTable[k] ELSE ScoreOf(k[1], k[2])

\* Array.prototype.filter
RECURSIVE FilterFetched(_, _)
FilterFetched(m, list) ==
    IF m = <<>> THEN <<>>
    ELSE IF InList(list, Head(m).uuid)
         THEN <<Head(m)>> \o FilterFetched(Tail(m), list)
         ELSE FilterFetched(Tail(m), list)

\* Array.prototype.sort with the comparator weightedScoreB - weightedScoreA
\* (a difference of two doubles is positive exactly when the first is the
\* greater): descending by score, and stable, so equal scores keep the
\* Map's insertion order.
RECURSIVE InsertByScoreLaterFirst(_, _, _)
InsertByScoreLaterFirst(sorted, e, t) ==
    IF sorted = <<>> THEN <<e>>
    ELSE IF DblLE(WeightedScore(Head(sorted), t), WeightedScore(e, t))
         THEN <<e>> \o sorted
         ELSE <<Head(sorted)>> \o InsertByScoreLaterFirst(Tail(sorted), e, t)

RECURSIVE InsertByScore(_, _, _)
InsertByScore(sorted, e, t) ==
    IF sorted = <<>> THEN <<e>>
    ELSE IF DblLT(WeightedScore(Head(sorted), t), WeightedScore(e, t))
         THEN <<e>> \o sorted
         ELSE <<Head(sorted)>> \o InsertByScore(Tail(sorted), e, t)

RECURSIVE SortByScore(_, _, _)
SortByScore(done, todo, t) ==
    IF todo = <<>> THEN done
    ELSE SortByScore(InsertByScore(done, Head(todo), t), Tail(todo), t)

SortedSubaccountsUnfiltered(m, list, t) == SortByScore(<<>>, m, t)

MinSuccessRate == <<4, 5>>          \* subaccountSelection.minSuccessRate: 0.8

\* the fetched entries at or above the minimum success rate only
SortedSubaccountsAboveMinimum(m, list, t) ==
    SortByScore(<<>>, SelectSeq(FilterFetched(m, list),
                                LAMBDA e : ~RatLT(e.successRate, MinSuccessRate)), t)

\* sortedSubaccounts of selectOptimalSubaccount, the Map already holding
\* the new uuids.
SortedSubaccounts(m, list, t) == SortByScore(<<>>, FilterFetched(m, list), t)

\* selectOptimalSubaccount(subaccounts) at time t: the Map after the call
\* and what the call returns.  With nothing to select, selected is
\* undefined and reading selected.uuid throws a TypeError, after the
\* registration loop has run.
selectOptimalSubaccountUnstamped(m, list, t) ==
    LET reg == Register(m, list)
        Selected(sortedSubaccounts) ==
            IF sortedSubaccounts = <<>>
            THEN [metrics |-> reg, threw |-> TRUE, uuid |-> "undefined"]
            ELSE [metrics |-> reg, threw |-> FALSE, uuid |-> sortedSubaccounts[1].uuid]
    IN  Selected(SortedSubaccounts(reg, list, t))

selectOptimalSubaccountAnyKnown(m, list, t) ==
    LET reg == Register(m, list)
        sorted == IF SortedSubaccounts(reg, list, t) = <<>>
                  THEN SortByScore(<<>>, reg, t)
                  ELSE SortedSubaccounts(reg, list, t)
    IN  IF sorted = <<>>
        THEN [metrics |-> reg, threw |-> TRUE, uuid |-> "undefined"]
        ELSE LET selected == sorted[1]
                 i == IndexOf(reg, selected.uuid)
             IN  [metrics |-> [reg EXCEPT ![i].lastUsed = t],
                  threw |-> FALSE, uuid |-> selected.uuid]

selectOptimalSubaccount(m, list, t) ==
    LET reg == Register(m, list)
        \* const selected = sortedSubaccounts[0], and what follows it
        Selected(sortedSubaccounts) ==
            IF sortedSubaccounts = <<>>
            THEN [metrics |-> reg, threw |-> TRUE, uuid |-> "undefined"]
            ELSE LET selected == sortedSubaccounts[1]
                     i == IndexOf(reg, selected.uuid)
                 IN  [metrics |-> [reg EXCEPT ![i].lastUsed = t],
                      threw |-> FALSE, uuid |-> selected.uuid]
    IN  Selected(SortedSubaccounts(reg, list, t))

updateSubaccountMetricsCreating(m, subaccountId, success) ==
    LET m1 == IF Has(m, subaccountId) THEN m ELSE Append(m, NewMetrics(subaccountId))
        i == IndexOf(m1, subaccountId)
        total == m1[i].totalTransactions + 1
        good == m1[i].successfulTransactions + (IF success THEN 1 ELSE 0)
    IN  [m1 EXCEPT ![i].totalTransactions = total,
                   ![i].successfulTransactions = good,
                   ![i].successRate = <<good, total>>]

updateSubaccountMetricsStaleRate(m, subaccountId, success) ==
    IF Has(m, subaccountId)
    THEN LET i == IndexOf(m, subaccountId)
             total == m[i].totalTransactions + 1
             good == m[i].successfulTransactions + (IF success THEN 1 ELSE 0)
         IN  [m EXCEPT ![i].totalTransactions = total,
                       ![i].successfulTransactions = good]
    ELSE m

\* updateSubaccountMetrics(subaccountId, success)
updateSubaccountMetrics(m, subaccountId, success) ==
    IF Has(m, subaccountId)
    THEN LET i == IndexOf(m, subaccountId)
             total == m[i].totalTransactions + 1
             good == m[i].successfulTransactions + (IF success THEN 1 ELSE 0)
         IN  [m EXCEPT ![i].totalTransactions = total,
                       ![i].successfulTransactions = good,
                       ![i].successRate = <<good, total>>]
    ELSE m

\* adjustSubaccountMetrics(subaccountId, successRate)
adjustSubaccountMetrics(m, subaccountId, successRate) ==
    IF Has(m, subaccountId)
    THEN [m EXCEPT ![IndexOf(m, subaccountId)].successRate = Clamp01(successRate)]
    ELSE m

(***************************************************************************)
(* handleRexpayResponseStatus: the gateway's status string to the          *)
(* PaymentStatus enum.  "undefined" stands for a missing status, for which *)
(* status?.toLowerCase() is undefined.                                     *)
(***************************************************************************)
\* the lower-case form of one character; the strings of the model are ASCII
LowerOf(c) ==
    IF Occurs(UpperLetters, c) THEN CharAt(LowerLetters, IndexIn(UpperLetters, c)) ELSE c

\* String.prototype.toLowerCase: every character by itself
RECURSIVE ToLowerCase(_)
ToLowerCase(str) ==
    IF str = "" THEN ""
    ELSE LowerOf(CharAt(str, 1)) \o ToLowerCase(SubSeq(str, 2, Len(str)))

handleRexpayResponseStatusExact(status) ==
    CASE status \in {"success", "completed"} -> "SUCCESS"
      [] status \in {"failed", "error"} -> "FAILED"
      [] OTHER -> "PENDING"

\* switch (status?.toLowerCase()), lines 88-99
StatusOf(status) ==
    LET s == IF status = "undefined" THEN "undefined" ELSE ToLowerCase(status)
    IN  CASE s \in {"success", "completed"} -> "SUCCESS"
          [] s \in {"failed", "error"} -> "FAILED"
          [] OTHER -> "PENDING"

\* StatusOf over the statuses the gateway of the model answers with
AnsweredStatuses == {"success", "FAILED", "PENDING", "", "3ds2", "undefined"}
StatusTable == [s \in AnsweredStatuses |-> StatusOf(s)] @@ <<>>

handleRexpayResponseStatus(status) ==
    IF status \in DOMAIN StatusTable THEN StatusTable[status] ELSE StatusOf(status)

(***************************************************************************)
(* The codec (utils/encryption.ts, and the variant of utils/index.ts).     *)
(* Strings are sequences of UTF-16 code units and Buffers sequences of     *)
(* bytes.  The block cipher is symbolic, the chaining around it is not: a  *)
(* ciphertext is written as the key it was made under and the blocks the   *)
(* cipher was applied to, which are the padded text with the iv added to   *)
(* its first block.  Two calls of encrypt return the same string exactly   *)
(* when these agree.                                                       *)
(***************************************************************************)
KEY_LENGTH == 32
IV_LENGTH == 16

\* 'a': one byte in UTF-8; U+00E9: two bytes; an unpaired high surrogate,
\* which Buffer writes as the three bytes of U+FFFD
Chars == {97, 233, 55296}

IsHighSurrogate(c) == c >= 55296 /\ c <= 56319
IsLowSurrogate(c) == c >= 56320 /\ c <= 57343

\* Buffer.from(str) / cipher.update(str, 'utf8')
RECURSIVE Utf8Encode(_)
Utf8Encode(str) ==
    IF str = <<>> THEN <<>>
    ELSE LET c == Head(str)
         IN  IF c < 128 THEN <<c>> \o Utf8Encode(Tail(str))
             ELSE IF c < 2048
             THEN <<192 + (c \div 64), 128 + (c % 64)>> \o Utf8Encode(Tail(str))
             ELSE IF IsHighSurrogate(c) /\ Len(str) >= 2 /\ IsLowSurrogate(str[2])
             THEN LET cp == 65536 + (c - 55296) * 1024 + (str[2] - 56320)
                  IN  <<240 + (cp \div 262144), 128 + ((cp \div 4096) % 64),
                        128 + ((cp \div 64) % 64), 128 + (cp % 64)>>
                          \o Utf8Encode(SubSeq(str, 3, Len(str)))
             ELSE IF IsHighSurrogate(c) \/ IsLowSurrogate(c)
             THEN <<239, 191, 189>> \o Utf8Encode(Tail(str))
             ELSE <<224 + (c \div 4096), 128 + ((c \div 64) % 64), 128 + (c % 64)>>
                      \o Utf8Encode(Tail(str))

\* the number of bytes that follow the lead byte b in a well-formed
\* sequence; 0 for a byte that leads none
Utf8Trail(b) ==
    IF b >= 194 /\ b <= 223 THEN 1
    ELSE IF b >= 224 /\ b <= 239 THEN 2
    ELSE IF b >= 240 /\ b <= 244 THEN 3
    ELSE 0

\* b may stand at place k after the lead byte
Utf8Continues(lead, k, b) ==
    IF k = 1
    THEN /\ b >= (IF lead = 224 THEN 160 ELSE IF lead = 240 THEN 144 ELSE 128)
         /\ b <= (IF lead = 237 THEN 159 ELSE IF lead = 244 THEN 143 ELSE 191)
    ELSE b >= 128 /\ b <= 191

\* how many of the bytes after the lead byte continue its sequence
RECURSIVE Utf8Good(_, _)
Utf8Good(bytes, k) ==
    IF /\ k < Utf8Trail(bytes[1]) /\ Len(bytes) >= k + 2
       /\ Utf8Continues(bytes[1], k + 1, bytes[k + 2])
    THEN Utf8Good(bytes, k + 1)
    ELSE k

\* the code point of a well-formed sequence
Utf8CodePoint(seq) ==
    CASE Len(seq) = 2 -> (seq[1] - 192) * 64 + (seq[2] - 128)
      [] Len(seq) = 3 -> (seq[1] - 224) * 4096 + (seq[2] - 128) * 64 + (seq[3] - 128)
      [] OTHER -> (seq[1] - 240) * 262144 + (seq[2] - 128) * 4096
                     + (seq[3] - 128) * 64 + (seq[4] - 128)

\* String.fromCodePoint
FromCodePoint(cp) ==
    IF cp < 65536 THEN <<cp>>
    ELSE <<55296 + ((cp - 65536) \div 1024), 56320 + ((cp - 65536) % 1024)>>

\* decipher.update(..., 'utf8') + decipher.final('utf8'): every longest run
\* of bytes that begins a sequence and does not complete it becomes one
\* U+FFFD, and so does every byte that begins none
RECURSIVE Utf8Decode(_)
Utf8Decode(bytes) ==
    IF bytes = <<>> THEN <<>>
    ELSE IF Head(bytes) < 128 THEN <<Head(bytes)>> \o Utf8Decode(Tail(bytes))
    ELSE LET good == Utf8Good(bytes, 0)
             rest == Utf8Decode(SubSeq(bytes, good + 2, Len(bytes)))
         IN  IF Utf8Trail(Head(bytes)) > 0 /\ good = Utf8Trail(Head(bytes))
             THEN FromCodePoint(Utf8CodePoint(SubSeq(bytes, 1, good + 1))) \o rest
             ELSE <<65533>> \o rest

PadEndOnly(str, n) ==
    IF Len(str) >= n THEN str ELSE str \o [i \in 1..(n - Len(str)) |-> 48]

\* str.padEnd(n, '0').substring(0, n)
PadEnd(str, n) ==
    SubSeq(PadEndOnly(str, n), 1, n)

\* the key Buffer: encryption.ts takes 32 hex digits of sha256(key), which
\* are the same for two keys exactly when the keys have the same bytes;
\* utils/index.ts pads the key itself
FormattedKey(variant, key) ==
    IF variant = "encryption"
    THEN [digest |-> TRUE, bytes |-> Utf8Encode(key), len |-> KEY_LENGTH]
    ELSE [digest |-> FALSE, bytes |-> Utf8Encode(PadEnd(key, KEY_LENGTH)),
          len |-> Len(Utf8Encode(PadEnd(key, KEY_LENGTH)))]

FormattedIV(iv) == Utf8Encode(PadEnd(iv, IV_LENGTH))

\* crypto.createCipheriv('aes-256-cbc', key, iv) throws on a key that is
\* not 32 bytes or an iv that is not 16
CipherAccepts(variant, key, iv) ==
    /\ FormattedKey(variant, key).len = KEY_LENGTH
    /\ Len(FormattedIV(iv)) = IV_LENGTH

\* a ^ b on two bytes
RECURSIVE BitXor(_, _)
BitXor(a, b) ==
    IF a = 0 THEN b
    ELSE IF b = 0 THEN a
    ELSE ((a + b) % 2) + 2 * BitXor(a \div 2, b \div 2)

\* CBC: the iv is added to the first block, of IV_LENGTH bytes
XorFirstBlock(bytes, iv) ==
    [i \in 1..Len(bytes) |-> IF i <= IV_LENGTH THEN BitXor(bytes[i], iv[i]) ELSE bytes[i]]

\* PKCS#7: 1 to 16 bytes, each the number of bytes added
Pkcs7Pad(bytes) ==
    LET p == IV_LENGTH - (Len(bytes) % IV_LENGTH)
    IN  bytes \o [i \in 1..p |-> p]

\* decipher.final() accepts the last block
Pkcs7Ok(bytes) ==
    /\ Len(bytes) > 0 /\ Len(bytes) % IV_LENGTH = 0
    /\ LET p == bytes[Len(bytes)]
       IN  /\ p >= 1 /\ p <= IV_LENGTH
           /\ \A i \in (Len(bytes) - p + 1)..Len(bytes) : bytes[i] = p

Pkcs7Strip(bytes) == SubSeq(bytes, 1, Len(bytes) - bytes[Len(bytes)])

\* the output encoding of the ciphertext
Encoding(variant) == IF variant = "encryption" THEN "base64" ELSE "hex"

NoCiphertext ==
    [k |-> [digest |-> FALSE, bytes |-> <<>>, len |-> 0], x |-> <<>>, enc |-> ""]

Codec_encrypt(variant, text, key, iv) ==
    IF CipherAccepts(variant, key, iv)
    THEN [ok |-> TRUE,
          ct |-> [k |-> FormattedKey(variant, key),
                  x |-> XorFirstBlock(Pkcs7Pad(Utf8Encode(text)), FormattedIV(iv)),
                  enc |-> Encoding(variant)]]
    ELSE [ok |-> FALSE, ct |-> NoCiphertext]

\* decrypt threw
CodecThrew == [ok |-> FALSE, text |-> <<>>]

\* decrypt returned the decoding of bytes that only the cipher determines:
\* a text the model does not compute, different from every text it does
CodecGarbled == [ok |-> TRUE, text |-> <<-1>>]

\* What decrypt can end in.  Under the key of the ciphertext the blocks are
\* recovered, the iv given now is taken from the first, and decrypt throws
\* when the cipher refuses the key or iv or the last block does not end in
\* a padding.  Under another key, or read in the other encoding, the blocks
\* are the cipher's to determine: their last one ends in a padding or not.
Codec_decrypt(variant, ct, key, iv) ==
    IF ~CipherAccepts(variant, key, iv) THEN {CodecThrew}
    ELSE IF ct.k = FormattedKey(variant, key) /\ ct.enc = Encoding(variant)
    THEN LET plain == XorFirstBlock(ct.x, FormattedIV(iv))
         IN  IF Pkcs7Ok(plain)
             THEN {[ok |-> TRUE, text |-> Utf8Decode(Pkcs7Strip(plain))]}
             ELSE {CodecThrew}
    ELSE {CodecThrew, CodecGarbled}

(***************************************************************************)
(* The card-data envelope of the service (utils/encryption.ts).  The text  *)
(* sealed is the JSON of the caller's card fields and the subaccount id,   *)
(* kept as the record of the two; it is longer than one block, and the id  *)
(* stands after the first block.                                           *)
(***************************************************************************)

\* the Buffers of the keys and ivs the service of the model is given
KeyBuffers ==
    [k \in {<<>>, CfgKey, CodeUnits("other")} |-> FormattedKey("encryption", k)] @@ <<>>
IvBuffers ==
    [v \in {CfgIv, CodeUnits("aa"), <<233>>} |-> FormattedIV(v)] @@ <<>>

\* sha256(key) in hex, first 32 characters
DeriveKey(key) ==
    IF key \in DOMAIN KeyBuffers THEN KeyBuffers[key] ELSE FormattedKey("encryption", key)
\* Buffer.from(iv.padEnd(16, '0').substring(0, 16))
DeriveIv(iv) ==
    IF iv \in DOMAIN IvBuffers THEN IvBuffers[iv] ELSE FormattedIV(iv)

\* crypto.createCipheriv / createDecipheriv throws
CipherThrows(key, iv) ==
    DeriveKey(key).len # KEY_LENGTH \/ Len(DeriveIv(iv)) # IV_LENGTH

CardJsonCardOnly(card, subaccountId) == [card |-> card, subaccount_id |-> "undefined"]

\* JSON.stringify({...cardDetails, subaccount_id})
CardJson(card, subaccountId) == [card |-> card, subaccount_id |-> subaccountId]

\* encrypt throws Error('Failed to encrypt data') when createCipheriv
\* rejects the iv
EncryptThrows(key, iv) == CipherThrows(key, iv)

encrypt(text, key, iv) ==
    [present |-> TRUE, k |-> DeriveKey(key), v |-> DeriveIv(iv), ct |-> text]

\* decrypt threw Error('Failed to decrypt data')
DecryptThrew == [ok |-> FALSE, shape |-> "", text |-> CardJson("", "undefined")]

\* What decrypt can end in: "json" is the text that was sealed, "altered"
\* the same text with another first block, "garbled" a text that only the
\* cipher determines.  Under the key of the envelope and another iv the
\* padding, in the last block, is found as it was written.
decrypt(env, key, iv) ==
    IF CipherThrows(key, iv) THEN {DecryptThrew}
    ELSE IF env.k # DeriveKey(key)
    THEN {DecryptThrew, [ok |-> TRUE, shape |-> "garbled", text |-> CardJson("", "undefined")]}
    ELSE IF env.v # DeriveIv(iv)
    THEN {[ok |-> TRUE, shape |-> "altered", text |-> env.ct]}
    ELSE {[ok |-> TRUE, shape |-> "json", text |-> env.ct]}

\* JSON.parse threw
ParseThrew == [ok |-> FALSE, error |-> "SyntaxError", subaccount_id |-> "undefined"]

\* What JSON.parse(decrypted).subaccount_id can end in.  Whether a text
\* with another first block still parses depends on the card's fields and
\* on the two ivs; a text the cipher determines does not parse.
JsonParse(d) ==
    CASE d.shape = "json" ->
            {[ok |-> TRUE, error |-> "", subaccount_id |-> d.text.subaccount_id]}
      [] d.shape = "altered" ->
            {ParseThrew, [ok |-> TRUE, error |-> "", subaccount_id |-> d.text.subaccount_id]}
      [] OTHER -> {ParseThrew}

\* JSON.parse(decrypt(cardDetails.encrypted, key, iv)), lines 417-425
DecryptedCardData(env, key, iv) ==
    UNION {IF d.ok THEN JsonParse(d)
           ELSE {[ok |-> FALSE, error |-> "Error", subaccount_id |-> "undefined"]} :
           d \in decrypt(env, key, iv)}

\* card.encrypted is undefined
NoEnvelope ==
    [present |-> FALSE, k |-> DeriveKey(<<>>), v |-> <<>>, ct |-> CardJson("", "undefined")]

\* an envelope sealed under another key
CorruptEnvelope == encrypt(CardJson("card", "A"), CodeUnits("other"), CfgIv)

\* an envelope sealed under the configured key and another iv
OtherIvEnvelope == encrypt(CardJson("card", "A"), CfgKey, CodeUnits("aa"))

(***************************************************************************)
(* The gateway's answers, per endpoint.                                    *)
(***************************************************************************)
SvcFailKinds == {"404", "500", "Error"}
GwStatuses == {"success", "FAILED", "PENDING"}
FetchLists == {<<>>, <<"A">>, <<"B">>, <<"A", "B">>, <<"B", "A">>}

SvcSuccess(list, status, gw) ==
    [ok |-> TRUE, kind |-> "ok", at |-> 0,
     body |-> [NoBody EXCEPT !.list = list, !.status = status, !.gw = gw]]

SvcFailures == {Failure(k) : k \in SvcFailKinds}

FetchAnswers == {SvcSuccess(l, "", "") : l \in FetchLists} \cup SvcFailures
InitializeAnswers == {SvcSuccess(<<>>, s, "") : s \in GwStatuses} \cup SvcFailures
\* a charge response with and without data.redirect_auth_data.customizedHtml['3ds2']
ChargeAnswers ==
    {SvcSuccess(<<>>, s, g) : s \in GwStatuses, g \in {"", "3ds2"}} \cup SvcFailures
FinalizeAnswers == {SvcSuccess(<<>>, s, "") : s \in GwStatuses} \cup SvcFailures
\* a refund response: its top-level boolean status and, in gw, the status
\* string of its data
RefundAnswers ==
    {SvcSuccess(<<>>, f, s) : f \in {"true", "false"}, s \in {"success", "failed"}}
        \cup SvcFailures
RetrieveAnswers ==
    {SvcSuccess(<<>>, s, g) : s \in GwStatuses, g \in {"absent", "json", "malformed"}}
        \cup SvcFailures

\* axios.isAxiosError(error): a rejection made by axios, not a plain Error
HttpStatuses == {"400", "401", "403", "404", "409", "418", "422", "429", "500", "503"}
TransportCodes == {"ECONNABORTED", "ENOTFOUND", "ECONNREFUSED"}
IsAxiosError(e) == e.kind \in HttpStatuses \cup TransportCodes
\* error.response?.status
ResponseStatus(e) == IF e.kind \in HttpStatuses THEN e.kind ELSE "undefined"

(***************************************************************************)
(* What a service call settles with.                                       *)
(***************************************************************************)
NoResult ==
    [kind |-> "none", name |-> "", status |-> "", message |-> "",
     cause |-> Pending, causeName |-> "", envelope |-> NoEnvelope,
     subaccount_id |-> "null", detail |-> ""]

Return(status, message) ==
    [NoResult EXCEPT !.kind = "return", !.status = status, !.message = message]

\* throw new <name>(message, originalError)
Throw(name, message, cause, causeName) ==
    [NoResult EXCEPT !.kind = "throw", !.name = name, !.message = message,
                     !.cause = cause, !.causeName = causeName]

\* an error raised inside the service, not by a gateway call
LocalError(name) == [ok |-> FALSE, kind |-> name, body |-> NoBody, at |-> 0]

(***************************************************************************)
(* The caller's inputs.                                                    *)
(***************************************************************************)
\* "card": 4111111111111111; "cardBadLuhn": 4111111111111112, the number of
\* the repository's test; "noCard": an instrument without card;
\* "noInstrument": a payment without payment_instrument
Cards == {"card", "cardBadLuhn", "noCard", "noInstrument"}
Envelopes ==
    {NoEnvelope, CorruptEnvelope, OtherIvEnvelope}
        \cup {encrypt(CardJson("card", s), CfgKey, CfgIv) : s \in Ids \cup {"undefined"}}
PaymentIds == {"", "missing-id"}

NoArg == [card |-> "", encrypted |-> NoEnvelope, id |-> ""]

IdleTask ==
    [op |-> "idle", pc |-> "idle", arg |-> NoArg, rf |-> RetryStart(MAX_RETRIES),
     list |-> <<>>, sel |-> "null", sub |-> "undefined", result |-> NoResult]

(***************************************************************************)
(* Bounds of the service model.                                            *)
(***************************************************************************)
Tasks == {"t1"}

\* error instanceof Error ? error : new Error(String(error))
ErrorName(e) == IF IsAxiosError(e) THEN "AxiosError" ELSE e.kind

(***************************************************************************)
(* initializePayment.  A task record and the Map go in, the pair after the *)
(* synchronous run up to the next await comes out.                         *)
(***************************************************************************)
InitializeCatchNoRecord(tk, m, error) ==
    [task |-> [tk EXCEPT !.pc = "done",
                         !.result = Throw("PaymentError", "Failed to initialize payment",
                                          error, ErrorName(error))],
     metrics |-> m, calls |-> <<>>]

\* the catch block
InitializeCatch(tk, m, error) ==
    [task |-> [tk EXCEPT !.pc = "done",
                         !.result = Throw("PaymentError", "Failed to initialize payment",
                                          error, ErrorName(error))],
     metrics |-> IF tk.sel # "null" THEN updateSubaccountMetrics(m, tk.sel, FALSE) ELSE m,
     calls |-> IF tk.sel # "null" THEN <<[id |-> tk.sel, success |-> FALSE]>> ELSE <<>>]

\* lines 289-342: the subaccounts have arrived
InitializeAfterFetch(tk, m, t) ==
    LET list == tk.rf.out.body.list
        \* r: what selectOptimalSubaccount did
        AfterSelection(r) ==
            IF r.threw
            THEN InitializeCatch([tk EXCEPT !.list = list], r.metrics, LocalError("TypeError"))
            ELSE IF tk.arg.card = "noCard"
            THEN InitializeCatch([tk EXCEPT !.list = list, !.sel = r.uuid], r.metrics,
                                 LocalError("TypeError"))
            ELSE [task |-> [tk EXCEPT !.list = list, !.sel = r.uuid, !.pc = "initialize",
                                      !.rf = RetryStart(MAX_RETRIES)],
                  metrics |-> r.metrics, calls |-> <<>>]
    IN  AfterSelection(selectOptimalSubaccount(m, list, t))

InitializeAfterInitializeSuccessOnly(tk, m) ==
    LET status == handleRexpayResponseStatus(tk.rf.out.body.status)
    IN  [task |-> [tk EXCEPT !.pc = "done",
                     !.result = [Return(status, "Payment initialized") EXCEPT
                                   !.envelope = encrypt(CardJson(tk.arg.card, tk.sel),
                                                        CfgKey, CfgIv),
                                   !.subaccount_id = tk.sel]],
         metrics |-> updateSubaccountMetrics(m, tk.sel, status = "SUCCESS"),
         calls |-> <<[id |-> tk.sel, success |-> status = "SUCCESS"]>>]

\* lines 344-389: the initialize response has arrived.  The outcome is
\* recorded (349) before the card is encrypted (352-359); when encrypt
\* throws, the catch block runs on the Map that already holds the outcome
InitializeAfterInitialize(tk, m) ==
    LET status == handleRexpayResponseStatus(tk.rf.out.body.status)
        key == config.encryption_key
        iv == config.encryption_iv
        recordedMap == updateSubaccountMetrics(m, tk.sel, status # "FAILED")
        call == [id |-> tk.sel, success |-> status # "FAILED"]
    IN  IF EncryptThrows(key, iv)
        THEN [InitializeCatch(tk, recordedMap, LocalError("Error")) EXCEPT !.calls = <<call>> \o @]
        ELSE [task |-> [tk EXCEPT !.pc = "done",
                          !.result = [Return(status, "Payment initialized") EXCEPT
                                        !.envelope = encrypt(CardJson(tk.arg.card, tk.sel), key, iv),
                                        !.subaccount_id = tk.sel]],
              metrics |-> recordedMap,
              calls |-> <<call>>]

InitializeContinue(tk, m, t) ==
    CASE tk.rf.st = "thrown" -> InitializeCatch(tk, m, tk.rf.out)
      [] tk.rf.st = "returned" /\ tk.pc = "fetch" -> InitializeAfterFetch(tk, m, t)
      [] tk.rf.st = "returned" /\ tk.pc = "initialize" -> InitializeAfterInitialize(tk, m)
      [] OTHER -> [task |-> tk, metrics |-> m, calls |-> <<>>]

\* lines 271-287: up to the first await
InitializeStart(tk, m, card) ==
    LET tk1 == [IdleTask EXCEPT !.op = "initializePayment", !.arg = [NoArg EXCEPT !.card = card]]
    IN  IF card = "noInstrument"
        THEN InitializeCatch(tk1, m, LocalError("TypeError"))
        ELSE [task |-> [tk1 EXCEPT !.pc = "fetch"], metrics |-> m, calls |-> <<>>]

(***************************************************************************)
(* authorizePayment.                                                       *)
(***************************************************************************)
\* the catch block: every error leaves as a PaymentError
AuthorizeCatch(tk, error) ==
    [tk EXCEPT !.pc = "done",
               !.result = Throw("PaymentError", "Failed to authorize payment",
                                error, ErrorName(error))]

\* lines 408-448: up to the await of the charge call
\* decryptedCardData is what JSON.parse(decrypt(...)) ended in
AuthorizeStart(tk, env, decryptedCardData) ==
    LET tk1 == [IdleTask EXCEPT !.op = "authorizePayment",
                                !.arg = [NoArg EXCEPT !.encrypted = env]]
    IN  IF ~env.present THEN AuthorizeCatch(tk1, LocalError("ValidationError"))
        ELSE IF ~decryptedCardData.ok
        THEN AuthorizeCatch(tk1, LocalError(decryptedCardData.error))
        ELSE [tk1 EXCEPT !.pc = "charge", !.sub = decryptedCardData.subaccount_id]

\* lines 450-465: the charge response has arrived
AuthorizeAfterCharge(tk, m) ==
    LET status == handleRexpayResponseStatus(tk.rf.out.body.status)
    IN  [task |-> [tk EXCEPT !.pc = "done", !.result = Return(status, "Payment authorized")],
         metrics |-> IF tk.sub # "undefined"
                     THEN updateSubaccountMetrics(m, tk.sub, status # "FAILED")
                     ELSE m,
         calls |-> IF tk.sub # "undefined"
                   THEN <<[id |-> tk.sub, success |-> status # "FAILED"]>>
                   ELSE <<>>]

AuthorizeContinueRecordingFailure(tk, m) ==
    CASE tk.rf.st = "thrown" ->
            [task |-> AuthorizeCatch(tk, tk.rf.out),
             metrics |-> IF tk.sub # "undefined"
                         THEN updateSubaccountMetrics(m, tk.sub, FALSE) ELSE m,
             calls |-> IF tk.sub # "undefined"
                       THEN <<[id |-> tk.sub, success |-> FALSE]>> ELSE <<>>]
      [] tk.rf.st = "returned" -> AuthorizeAfterCharge(tk, m)
      [] OTHER -> [task |-> tk, metrics |-> m, calls |-> <<>>]

\* the continuation of authorizePayment after an await on the charge call
AuthorizeContinue(tk, m) ==
    CASE tk.rf.st = "thrown" -> [task |-> AuthorizeCatch(tk, tk.rf.out), metrics |-> m,
                                 calls |-> <<>>]
      [] tk.rf.st = "returned" -> AuthorizeAfterCharge(tk, m)
      [] OTHER -> [task |-> tk, metrics |-> m, calls |-> <<>>]

(***************************************************************************)
(* retrievePayment.                                                        *)
(***************************************************************************)
RetrieveCatchNo404(tk, error) ==
    [tk EXCEPT !.pc = "done",
               !.result = Throw("PaymentError", "Failed to retrieve payment",
                                error, ErrorName(error))]

\* the catch block; the ValidationError of line 491 is thrown on as it is,
\* and it was made without an original error
RetrieveCatch(tk, error) ==
    [tk EXCEPT !.pc = "done",
       !.result =
          IF error.kind = "ValidationError"
          THEN Throw("ValidationError", "Payment ID is required", Pending, "")
          ELSE IF IsAxiosError(error)
          THEN IF ResponseStatus(error) = "404"
               THEN Return("FAILED", "Payment not found")
               ELSE Throw("PaymentError", "Failed to retrieve payment", error, "AxiosError")
          ELSE Throw("PaymentError", "Payment retrieval failed", error, ErrorName(error))]

\* lines 489-506
RetrieveStart(tk, paymentId) ==
    LET tk1 == [IdleTask EXCEPT !.op = "retrievePayment", !.arg = [NoArg EXCEPT !.id = paymentId]]
    IN  IF paymentId = "" THEN RetrieveCatch(tk1, LocalError("ValidationError"))
        ELSE [tk1 EXCEPT !.pc = "get"]

RetrieveAfterGetParseThrows(tk) ==
    LET body == tk.rf.out.body
    IN  IF body.gw = "malformed" THEN RetrieveCatch(tk, LocalError("SyntaxError"))
        ELSE [tk EXCEPT !.pc = "done",
                !.result = [Return(handleRexpayResponseStatus(body.status), "Payment retrieved")
                              EXCEPT !.detail = IF body.gw = "json" THEN "detail" ELSE "none"]]

\* lines 508-538: JSON.parse of gateway_response is tried and a failure
\* is only logged
RetrieveAfterGet(tk) ==
    LET body == tk.rf.out.body
    IN  [tk EXCEPT !.pc = "done",
           !.result = [Return(handleRexpayResponseStatus(body.status), "Payment retrieved")
                         EXCEPT !.detail = IF body.gw = "json" THEN "detail" ELSE "none"]]

RetrieveContinue(tk) ==
    CASE tk.rf.st = "thrown" -> RetrieveCatch(tk, tk.rf.out)
      [] tk.rf.st = "returned" -> RetrieveAfterGet(tk)
      [] OTHER -> tk

(***************************************************************************)
(* finalizePayment.                                                        *)
(***************************************************************************)
\* the catch block: every error leaves as a PaymentError
FinalizeCatch(tk, error) ==
    [tk EXCEPT !.pc = "done",
               !.result = Throw("PaymentError", "Failed to finalize payment",
                                error, ErrorName(error))]

\* lines 569-588
FinalizeStart(tk, paymentId) ==
    LET tk1 == [IdleTask EXCEPT !.op = "finalizePayment", !.arg = [NoArg EXCEPT !.id = paymentId]]
    IN  IF paymentId = "" THEN FinalizeCatch(tk1, LocalError("ValidationError"))
        ELSE [tk1 EXCEPT !.pc = "finalize"]

\* lines 590-597: no status is read from the response
FinalizeAfterPost(tk) ==
    [tk EXCEPT !.pc = "done", !.result = Return("SUCCESS", "Payment finalized")]

FinalizeContinue(tk) ==
    CASE tk.rf.st = "thrown" -> FinalizeCatch(tk, tk.rf.out)
      [] tk.rf.st = "returned" -> FinalizeAfterPost(tk)
      [] OTHER -> tk

(***************************************************************************)
(* refundPayment.                                                          *)
(***************************************************************************)
\* the catch block: throw new InternalServerError(message), no cause kept
RefundCatch(tk, error) ==
    [tk EXCEPT !.pc = "done",
               !.result = Throw("InternalServerError", "Failed to refund payment",
                                Pending, "")]

\* lines 614-633
RefundStart(tk) ==
    [IdleTask EXCEPT !.op = "refundPayment", !.pc = "refund"]

RefundAfterPostByStatusString(tk) ==
    [tk EXCEPT !.pc = "done",
               !.result = Return(handleRexpayResponseStatus(tk.rf.out.body.gw),
                                 "Refund processed")]

\* lines 635-640: refundResponse.status ? SUCCESS : FAILED
RefundAfterPost(tk) ==
    [tk EXCEPT !.pc = "done",
               !.result = Return(IF tk.rf.out.body.status = "true" THEN "SUCCESS" ELSE "FAILED",
                                 "Refund processed")]

RefundContinue(tk) ==
    CASE tk.rf.st = "thrown" -> RefundCatch(tk, tk.rf.out)
      [] tk.rf.st = "returned" -> RefundAfterPost(tk)
      [] OTHER -> tk

(***************************************************************************)
(* The lifecycle of the payment a caller's calls are about.  The service   *)
(* keeps no such state: this is what the results it returned so far tell   *)
(* the caller, Created -> Initialized -> {Authorized, Failed} ->           *)
(* {Finalized, Refunded}.                                                  *)
(***************************************************************************)
Terminal == {"Finalized", "Refunded", "Failed"}

Transition(l, op, status) ==
    CASE op = "initializePayment" -> IF status = "FAILED" THEN "Failed" ELSE "Initialized"
      [] op = "authorizePayment" ->
            IF status = "FAILED" THEN "Failed"
            ELSE IF status = "SUCCESS" THEN "Authorized" ELSE l
      [] op = "finalizePayment" -> "Finalized"
      [] op = "refundPayment" -> IF status = "SUCCESS" THEN "Refunded" ELSE l
      [] OTHER -> l

\* the lifecycle state after a step that takes a call from before to after
LifeAfter(l, before, after) ==
    IF before.pc # "done" /\ after.pc = "done" /\ after.result.kind = "return"
    THEN Transition(l, after.op, after.result.status)
    ELSE l

\* the lifecycle states after a step of caller t; a specification that does
\* not follow the lifecycle starts them at <<>>
Lives(l, t, before, after) ==
    IF t \in DOMAIN l THEN [l EXCEPT ![t] = LifeAfter(@, before, after)] ELSE l

\* the calls of updateSubaccountMetrics counted per uuid; a specification
\* that keeps no count starts it at <<>>
NoneRecorded == [id \in Ids |-> [total |-> 0, successful |-> 0]]

RECURSIVE Count(_, _)
Count(rec, calls) ==
    IF calls = <<>> \/ rec = <<>> THEN rec
    ELSE LET c == Head(calls)
         IN  Count([rec EXCEPT ![c.id].total = @ + 1,
                               ![c.id].successful = @ + (IF c.success THEN 1 ELSE 0)],
                   Tail(calls))

(***************************************************************************)
(* Spec: the service under calls started one after another by its tasks,   *)
(* every gateway answer chosen freely, the clock advancing at any moment.  *)
(***************************************************************************)
Init ==
    /\ rx = RetryStart(MAX_RETRIES)
    /\ metrics = <<>>
    /\ now = T0
    /\ startTime = 0
    /\ config = DefaultConfig /\ sink = <<>>
    /\ task = [t \in Tasks |-> IdleTask]
    /\ ops = 0
    /\ adjusts = 0
    /\ recorded = <<>>
    /\ life = <<>>
    /\ cx = <<>> /\ sx = <<>> /\ fx = <<>>

Free(t) == task[t].pc \in {"idle", "done"} /\ ops < MaxOps

\* what this.metrics.recordSuccess / recordError is given by caller t's
\* call, -1 while it has given nothing: Date.now() - this.startTime, read
\* when the call settles; began tells that this step is the call's first
Sink(s, t, began, after, start, at) ==
    IF t \in DOMAIN s
    THEN [s EXCEPT ![t] = [started |-> IF began THEN at ELSE s[t].started,
                           reported |-> IF after.pc = "done" THEN at - start ELSE -1]]
    ELSE s

\* a delay that held the event loop: nothing settles while a call sleeps
AwaitingUnlessAsleep(t, pc) ==
    /\ task[t].pc = pc /\ task[t].rf.st = "calling"
    /\ \A u \in DOMAIN task : task[u].rf.st # "sleeping"

Awaiting(t, pc) == task[t].pc = pc /\ task[t].rf.st = "calling"

StartInitialize(t) ==
    /\ Free(t)
    /\ \E card \in Cards :
         LET r == InitializeStart(task[t], metrics, card)
         IN  /\ task' = [task EXCEPT ![t] = r.task] /\ metrics' = r.metrics
             /\ recorded' = Count(recorded, r.calls)
    /\ ops' = ops + 1
    /\ UNCHANGED <<retryVars, codecVars, statusVars, fnVars, config, sink, now, startTime, adjusts, life>>

InitializeAnswer(t) ==
    /\ \/ Awaiting(t, "fetch") \/ Awaiting(t, "initialize")
    /\ \E a \in (IF task[t].pc = "fetch" THEN FetchAnswers ELSE InitializeAnswers) :
         \E r \in {InitializeContinue([task[t] EXCEPT !.rf = RetryAttempt(@, a)],
                                       metrics, now)} :
            /\ task' = [task EXCEPT ![t] = r.task] /\ metrics' = r.metrics
            /\ recorded' = Count(recorded, r.calls)
    /\ life' = Lives(life, t, task[t], task'[t])
    /\ UNCHANGED <<retryVars, codecVars, statusVars, fnVars, config, sink, now, startTime, ops, adjusts>>

StartAuthorize(t) ==
    /\ Free(t)
    /\ \E env \in Envelopes :
         \E data \in DecryptedCardData(env, config.encryption_key, config.encryption_iv) :
            task' = [task EXCEPT ![t] = AuthorizeStart(task[t], env, data)]
    /\ startTime' = now
    /\ ops' = ops + 1
    /\ sink' = Sink(sink, t, TRUE, task'[t], now, now)
    /\ UNCHANGED <<retryVars, codecVars, statusVars, fnVars, config, metrics, now, adjusts, recorded, life>>

ChargeAnswer(t) ==
    /\ Awaiting(t, "charge")
    /\ \E a \in ChargeAnswers :
         /\ LET r == AuthorizeContinue([task[t] EXCEPT !.rf = RetryAttempt(@, a)], metrics)
            IN  /\ task' = [task EXCEPT ![t] = r.task] /\ metrics' = r.metrics
                /\ recorded' = Count(recorded, r.calls)
    /\ life' = Lives(life, t, task[t], task'[t])
    /\ sink' = Sink(sink, t, FALSE, task'[t], startTime, now)
    /\ UNCHANGED <<retryVars, codecVars, statusVars, fnVars, config, now, startTime, ops, adjusts>>

StartRetrieve(t) ==
    /\ Free(t)
    /\ \E id \in PaymentIds : task' = [task EXCEPT ![t] = RetrieveStart(task[t], id)]
    /\ startTime' = now
    /\ ops' = ops + 1
    /\ sink' = Sink(sink, t, TRUE, task'[t], now, now)
    /\ UNCHANGED <<retryVars, codecVars, statusVars, fnVars, config, metrics, now, adjusts, recorded, life>>

RetrieveAnswer(t) ==
    /\ Awaiting(t, "get")
    /\ \E a \in RetrieveAnswers :
         /\ task' = [task EXCEPT ![t] = RetrieveContinue([task[t] EXCEPT !.rf = RetryAttempt(@, a)])]
    /\ life' = Lives(life, t, task[t], task'[t])
    /\ sink' = Sink(sink, t, FALSE, task'[t], startTime, now)
    /\ UNCHANGED <<retryVars, codecVars, statusVars, fnVars, config, metrics, now, startTime, ops, adjusts, recorded>>

StartFinalize(t) ==
    /\ Free(t)
    /\ \E id \in PaymentIds : task' = [task EXCEPT ![t] = FinalizeStart(task[t], id)]
    /\ startTime' = now
    /\ ops' = ops + 1
    /\ sink' = Sink(sink, t, TRUE, task'[t], now, now)
    /\ UNCHANGED <<retryVars, codecVars, statusVars, fnVars, config, metrics, now, adjusts, recorded, life>>

FinalizeAnswer(t) ==
    /\ Awaiting(t, "finalize")
    /\ \E a \in FinalizeAnswers :
         /\ task' = [task EXCEPT ![t] = FinalizeContinue([task[t] EXCEPT !.rf = RetryAttempt(@, a)])]
    /\ life' = Lives(life, t, task[t], task'[t])
    /\ sink' = Sink(sink, t, FALSE, task'[t], startTime, now)
    /\ UNCHANGED <<retryVars, codecVars, statusVars, fnVars, config, metrics, now, startTime, ops, adjusts, recorded>>

StartRefund(t) ==
    /\ Free(t)
    /\ task' = [task EXCEPT ![t] = RefundStart(task[t])]
    /\ ops' = ops + 1
    /\ UNCHANGED <<retryVars, codecVars, statusVars, fnVars, config, sink, metrics, now, startTime, adjusts, recorded, life>>

RefundAnswer(t) ==
    /\ Awaiting(t, "refund")
    /\ \E a \in RefundAnswers :
         /\ task' = [task EXCEPT ![t] = RefundContinue([task[t] EXCEPT !.rf = RetryAttempt(@, a)])]
    /\ life' = Lives(life, t, task[t], task'[t])
    /\ UNCHANGED <<retryVars, codecVars, statusVars, fnVars, config, sink, metrics, now, startTime, ops, adjusts, recorded>>

\* the backoff timer of a sleeping executeWithRetry fires
RetryTimer(t) ==
    /\ task[t].rf.st = "sleeping"
    /\ task' = [task EXCEPT ![t].rf = RetryResume(@)]
    /\ UNCHANGED <<retryVars, codecVars, statusVars, fnVars, config, sink, metrics, now, startTime, ops, adjusts, recorded, life>>

AdjustRates == {<<3, 4>>, <<3, 2>>, <<-1, 4>>}

Adjust ==
    /\ adjusts < MaxAdjusts
    /\ \E id \in Ids, r \in AdjustRates :
         metrics' = adjustSubaccountMetrics(metrics, id, r)
    /\ adjusts' = adjusts + 1
    /\ UNCHANGED <<retryVars, codecVars, statusVars, fnVars, config, sink, now, startTime, task, ops, recorded, life>>

Tick ==
    /\ now < T0 + MaxTicks
    /\ now' = now + 1
    /\ UNCHANGED <<retryVars, codecVars, statusVars, fnVars, config, sink, metrics, startTime, task, ops, adjusts, recorded, life>>

Next ==
    \/ \E t \in Tasks : StartInitialize(t)
    \/ \E t \in Tasks : InitializeAnswer(t)
    \/ \E t \in Tasks : StartAuthorize(t)
    \/ \E t \in Tasks : ChargeAnswer(t)
    \/ \E t \in Tasks : StartRetrieve(t)
    \/ \E t \in Tasks : RetrieveAnswer(t)
    \/ \E t \in Tasks : StartFinalize(t)
    \/ \E t \in Tasks : FinalizeAnswer(t)
    \/ \E t \in Tasks : StartRefund(t)
    \/ \E t \in Tasks : RefundAnswer(t)
    \/ \E t \in Tasks : RetryTimer(t)
    \/ Adjust
    \/ Tick

Spec == Init /\ [][Next]_vars

(***************************************************************************)
(* SpecLife: the same calls, with the lifecycle of each caller's payment   *)
(* followed from the results returned.                                     *)
(***************************************************************************)
InitLife ==
    /\ rx = RetryStart(MAX_RETRIES)
    /\ metrics = <<>>
    /\ now = T0
    /\ startTime = 0
    /\ config = DefaultConfig /\ sink = <<>>
    /\ task = [t \in Tasks |-> IdleTask]
    /\ ops = 0
    /\ adjusts = 0
    /\ recorded = <<>>
    /\ life = [t \in Tasks |-> "Created"]
    /\ cx = <<>> /\ sx = <<>> /\ fx = <<>>

SpecLife == InitLife /\ [][Next]_vars

(***************************************************************************)
(* SpecC: two callers with initializePayment and authorizePayment calls in *)
(* flight on one service instance at once.  A step is the synchronous run  *)
(* of one call between two awaits: JavaScript runs it to completion before *)
(* any other callback of the instance starts.                              *)
(***************************************************************************)
Callers == {"t1", "t2"}

InitC ==
    /\ rx = RetryStart(MAX_RETRIES)
    /\ metrics = <<>>
    /\ now = T0
    /\ startTime = 0
    /\ config = DefaultConfig /\ sink = <<>>
    /\ task = [t \in Callers |-> IdleTask]
    /\ ops = 0
    /\ adjusts = 0
    /\ recorded = NoneRecorded
    /\ life = <<>>
    /\ cx = <<>> /\ sx = <<>> /\ fx = <<>>

NextC ==
    \/ \E t \in Callers : StartInitialize(t)
    \/ \E t \in Callers : InitializeAnswer(t)
    \/ \E t \in Callers : StartAuthorize(t)
    \/ \E t \in Callers : ChargeAnswer(t)
    \/ \E t \in Callers : RetryTimer(t)
    \/ Tick

SpecC == InitC /\ [][NextC]_vars

(***************************************************************************)
(* SpecProgress: SpecC with the steps of caller t2 taken whenever they     *)
(* stay possible: its gateway calls settle (each has a timeout) and its    *)
(* backoff timers fire.  Nothing is assumed of caller t1, whose timer may  *)
(* be pending for as long as it takes.                                     *)
(***************************************************************************)
SpecProgress ==
    /\ InitC /\ [][NextC]_vars
    /\ WF_vars(InitializeAnswer("t2"))
    /\ WF_vars(ChargeAnswer("t2"))
    /\ WF_vars(RetryTimer("t2"))

(***************************************************************************)
(* selectBestSubaccount of the second service class (part_001).  Nothing   *)
(* in the repository calls it, so it takes part in no behaviour of the     *)
(* service; it is kept as a function of a Map and a time, and SpecSelect   *)
(* applies it next to selectOptimalSubaccount.                             *)
(***************************************************************************)
RECENCY_WINDOW == 30                \* days

\* successRate * successRateWeight + recency * recencyWeight in doubles,
\* with recency = 1 - Math.min(1, (now - lastUsed) / window).  elapsed is
\* now - lastUsed in the milliseconds of Date.now(); the window is
\* 30 * 24 * 60 * 60 * 1000, every partial product of which is a whole
\* number a double holds exactly
B_ScoreOf(rate, elapsed) ==
    LET Window == DblMul(DblOfInt(RECENCY_WINDOW), DblOfInt(24 * 60 * 60 * 1000))
        Recency(quotient) == DblSub(DblOfInt(1), MathMin(DblOfInt(1), quotient))
        Score(recency) == DblAdd(DblMul(RateValue(rate), Dbl07), DblMul(recency, Dbl03))
        \* each set of one element is computed before the next expression
        \* is entered, which keeps the evaluation shallow
        quotients == {DblDiv(DblOfInt(elapsed), window) : window \in {Window}}
        recencies == {Recency(quotient) : quotient \in quotients}
    IN  CHOOSE score \in {Score(recency) : recency \in recencies} : TRUE

B_Score(e, t) == B_ScoreOf(e.successRate, t - e.lastUsed)

\* if (metrics.successRate < minSuccessRate) continue
B_Skips(e) == RatLT(e.successRate, MinSuccessRate)

\* the for loop of selectBestSubaccount over the Map's entries
RECURSIVE B_Loop(_, _, _)
B_Loop(entries, best, t) ==
    IF entries = <<>> THEN best
    ELSE LET e == Head(entries)
         IN  IF B_Skips(e) THEN B_Loop(Tail(entries), best, t)
             ELSE IF DblLT(best.bestScore, B_Score(e, t))
             THEN B_Loop(Tail(entries), [bestScore |-> B_Score(e, t), bestSubaccount |-> e.uuid], t)
             ELSE B_Loop(Tail(entries), best, t)

\* selectBestSubaccount() at time t: an id, or "null"
selectBestSubaccount(m, t) ==
    IF Len(m) = 0 THEN "null"
    ELSE B_Loop(m, [bestScore |-> DblOfInt(-1), bestSubaccount |-> "null"], t).bestSubaccount

(***************************************************************************)
(* SpecCodec: encrypt applied to any text under any key and iv, then       *)
(* decrypt applied to the result under the same key and iv or under        *)
(* others.                                                                 *)
(***************************************************************************)
MaxStrLen == 2

Strings == UNION {[1..n -> Chars] : n \in 0..MaxStrLen}
\* '', 'a', U+00E9 and 33 times 'a'
CodecKeys == {<<>>, <<97>>, <<233>>, [i \in 1..(KEY_LENGTH + 1) |-> 97]}
\* '', 'a', U+00E9 and 17 times 'a'
CodecIvs == {<<>>, <<97>>, <<233>>, [i \in 1..(IV_LENGTH + 1) |-> 97]}
Variants == {"encryption", "index"}

InitCodec ==
    /\ \E variant \in Variants, text \in Strings, key \in CodecKeys, iv \in CodecIvs :
         cx = [variant |-> variant, text |-> text, key |-> key, iv |-> iv,
               st |-> "input", ct |-> NoCiphertext,
               openKey |-> key, openIv |-> iv, out |-> <<>>]
    /\ rx = RetryStart(MAX_RETRIES)
    /\ metrics = <<>> /\ now = 0 /\ startTime = 0 /\ task = <<>> /\ config = DefaultConfig /\ sink = <<>>
    /\ ops = 0 /\ adjusts = 0 /\ recorded = <<>> /\ life = <<>>
    /\ sx = <<>> /\ fx = <<>>

CodecEncrypt ==
    /\ cx.st = "input"
    /\ LET r == Codec_encrypt(cx.variant, cx.text, cx.key, cx.iv)
       IN  cx' = [cx EXCEPT !.st = IF r.ok THEN "sealed" ELSE "encryptThrew", !.ct = r.ct]
    /\ UNCHANGED <<retryVars, svcVars, statusVars, fnVars>>

\* decrypt(encrypted, key, iv), the key and iv being any
CodecDecrypt ==
    /\ cx.st = "sealed"
    /\ \E key \in CodecKeys, iv \in CodecIvs :
         \E r \in Codec_decrypt(cx.variant, cx.ct, key, iv) :
            cx' = [cx EXCEPT !.st = IF r.ok THEN "opened" ELSE "decryptThrew",
                             !.openKey = key, !.openIv = iv, !.out = r.text]
    /\ UNCHANGED <<retryVars, svcVars, statusVars, fnVars>>

NextCodec == CodecEncrypt \/ CodecDecrypt

SpecCodec == InitCodec /\ [][NextCodec]_vars

(***************************************************************************)
(* SpecStatus: one gateway status string handed to the status mapping by   *)
(* the code of initializePayment, authorizePayment or retrievePayment that *)
(* runs when the gateway's response has arrived.                           *)
(***************************************************************************)
StatusStrings ==
    {"success", "completed", "failed", "error", "pending", "processing",
     "SUCCESS", "COMPLETED", "FAILED", "ERROR", "PENDING", "PROCESSING",
     "Success", "Failed", "Completed", "Error", "Pending", "sUcCeSs", "fAiLeD",
     "declined", "unknown", "successful", "", "undefined"}

MappingCallers == {"initializePayment", "authorizePayment", "retrievePayment"}

\* the call, suspended on its gateway request, when the response with the
\* given status arrives
Responded(caller, status) ==
    [IdleTask EXCEPT !.op = caller, !.sel = "A", !.sub = "A", !.list = <<"A">>,
                     !.arg = [NoArg EXCEPT !.card = "card", !.id = "missing-id"],
                     !.rf = RetryAttempt(RetryStart(MAX_RETRIES),
                                         SvcSuccess(<<>>, status, "absent"))]

MappedBy(caller, status) ==
    LET tk == Responded(caller, status)
        m == Register(<<>>, <<"A">>)
    IN  CASE caller = "initializePayment" -> InitializeAfterInitialize(tk, m).task.result.status
          [] caller = "authorizePayment" -> AuthorizeAfterCharge(tk, m).task.result.status
          [] OTHER -> RetrieveAfterGet(tk).result.status

InitStatus ==
    /\ \E caller \in MappingCallers, status \in StatusStrings :
         sx = [caller |-> caller, status |-> status, st |-> "input", out |-> ""]
    /\ rx = RetryStart(MAX_RETRIES)
    /\ metrics = <<>> /\ now = 0 /\ startTime = 0 /\ task = <<>> /\ config = DefaultConfig /\ sink = <<>>
    /\ ops = 0 /\ adjusts = 0 /\ recorded = <<>> /\ life = <<>>
    /\ cx = <<>> /\ fx = <<>>

StatusMap ==
    /\ sx.st = "input"
    /\ sx' = [sx EXCEPT !.st = "mapped", !.out = MappedBy(sx.caller, sx.status)]
    /\ UNCHANGED <<retryVars, svcVars, codecVars, fnVars>>

NextStatus == StatusMap

SpecStatus == InitStatus /\ [][NextStatus]_vars

(***************************************************************************)
(* handleError of part_001: what a failed gateway call is turned into.     *)
(***************************************************************************)
\* which of the fields carrying a message the failure has
MessageFields == {"data.error.message", "data.message", "message"}

\* throw new <name>(message, originalError)
Thrown(name, message, original) == [name |-> name, message |-> message, original |-> original]

handleError(error, field) ==
    LET status == ResponseStatus(error)
        \* response.data.error.message || response.data.message || error.message
        errorMessage == IF status = "undefined" THEN "message" ELSE field
        \* axiosError.response?.status >= 500
        atLeast500 == status \in {"500", "503"}
    IN  IF ~IsAxiosError(error)
        THEN Thrown("PaymentError", <<"An unexpected error occurred">>, error.kind)
        ELSE CASE status = "400" -> Thrown("ValidationError", <<errorMessage>>, "")
               [] status = "401" ->
                    Thrown("Error", <<"Authentication failed. Please check your API credentials.">>, "")
               [] status = "403" ->
                    Thrown("Error", <<"Insufficient permissions to perform this action.">>, "")
               [] status = "404" ->
                    Thrown("Error", <<"The requested resource was not found.">>, "")
               [] status = "409" ->
                    Thrown("Error", <<"A conflict occurred while processing your request.">>, "")
               [] status = "422" ->
                    Thrown("ValidationError", <<"Validation failed: ", errorMessage>>, "")
               [] status = "429" ->
                    Thrown("Error", <<"Rate limit exceeded. Please try again later.">>, "")
               [] atLeast500 ->
                    Thrown("InternalServerError", <<"An internal server error occurred.">>,
                           error.kind)
               [] error.kind = "ECONNABORTED" ->
                    Thrown("Error", <<"Request timed out. Please try again.">>, "")
               [] error.kind = "ENOTFOUND" ->
                    Thrown("Error", <<"Unable to connect to the payment service. Please check your network connection.">>, "")
               [] OTHER -> Thrown("PaymentError", <<"An unexpected error occurred">>, error.kind)

(***************************************************************************)
(* SpecClassify: one failed gateway call, handed to handleError and, as    *)
(* the rejection of the operation, to executeWithRetry.                    *)
(***************************************************************************)
ClassifiedFailures == {Failure(k) : k \in HttpStatuses \cup TransportCodes \cup {"Error"}}

InitClassify ==
    /\ \E error \in ClassifiedFailures, field \in MessageFields :
         fx = [error |-> error, field |-> field, st |-> "raised",
               thrown |-> Thrown("", <<>>, ""), rf |-> RetryStart(MAX_RETRIES)]
    /\ rx = RetryStart(MAX_RETRIES)
    /\ metrics = <<>> /\ now = 0 /\ startTime = 0 /\ task = <<>> /\ config = DefaultConfig /\ sink = <<>>
    /\ ops = 0 /\ adjusts = 0 /\ recorded = <<>> /\ life = <<>>
    /\ cx = <<>> /\ sx = <<>>

\* the catch block of part_001's initializePayment: return this.handleError(error)
ClassifyFailure ==
    /\ fx.st = "raised"
    /\ fx' = [fx EXCEPT !.st = "classified", !.thrown = handleError(fx.error, fx.field)]
    /\ UNCHANGED <<retryVars, svcVars, codecVars, statusVars>>

\* operation() rejects with the failure inside executeWithRetry
ClassifyAttempt ==
    /\ fx.rf.st = "calling"
    /\ fx' = [fx EXCEPT !.rf = RetryAttempt(@, fx.error)]
    /\ UNCHANGED <<retryVars, svcVars, codecVars, statusVars>>

ClassifyTimer ==
    /\ fx.rf.st = "sleeping"
    /\ fx' = [fx EXCEPT !.rf = RetryResume(@)]
    /\ UNCHANGED <<retryVars, svcVars, codecVars, statusVars>>

NextClassify == ClassifyFailure \/ ClassifyAttempt \/ ClassifyTimer

SpecClassify == InitClassify /\ [][NextClassify]_vars

(***************************************************************************)
(* The amount a request carries.  An amount is written as the pair         *)
(* <<n, d>> of two integers whose quotient it is; the arithmetic on it is  *)
(* that of doubles.                                                        *)
(***************************************************************************)
\* formatAmount(amount): converted = amount / 100, then
\* Math.round(converted * 100) / 100
formatAmount(amount) ==
    LET converted == DblDiv(DblOfQuotient(amount[1], amount[2]), DblOfInt(100))
    IN  <<MathRound(DblMul(converted, DblOfInt(100))), 100>>

\* the amount field of the request each operation builds
AmountSent(op, amount) ==
    CASE op \in {"initializePayment", "authorizePayment"} -> formatAmount(amount)
      [] op = "refundPayment" ->
            IF amount[1] # 0 THEN formatAmount(amount) ELSE "undefined"
      [] OTHER -> amount   \* part_001 initializePayment: amount: payment.amount

(***************************************************************************)
(* SpecAmount: one request built for one payment amount, in minor units    *)
(* (whole or with a half).                                                 *)
(***************************************************************************)
MaxAmount == 25

InitAmount ==
    /\ \E op \in {"initializePayment", "authorizePayment", "refundPayment",
                   "part_001.initializePayment"},
          n \in 0..(2 * MaxAmount) \cup {1000, 1999, 2000}, d \in {1, 2} :
         /\ d = 2 => n % 2 = 1
         /\ d = 1 => (n <= MaxAmount \/ n >= 1000)
         /\ fx = [op |-> op, amount |-> <<n, d>>, st |-> "building", sent |-> "undefined"]
    /\ rx = RetryStart(MAX_RETRIES)
    /\ metrics = <<>> /\ now = 0 /\ startTime = 0 /\ task = <<>> /\ config = DefaultConfig /\ sink = <<>>
    /\ ops = 0 /\ adjusts = 0 /\ recorded = <<>> /\ life = <<>>
    /\ cx = <<>> /\ sx = <<>>

\* the payload is built
BuildPayload ==
    /\ fx.st = "building"
    /\ fx' = [fx EXCEPT !.st = "built", !.sent = AmountSent(fx.op, fx.amount)]
    /\ UNCHANGED <<retryVars, svcVars, codecVars, statusVars>>

NextAmount == BuildPayload

SpecAmount == InitAmount /\ [][NextAmount]_vars

(***************************************************************************)
(* Helpers for the statements.                                             *)
(***************************************************************************)
Settled(f) == f.st \in {"returned", "thrown"}

Failures(f) == {i \in 1..Len(f.calls) : ~f.calls[i].ok}

(***************************************************************************)
(* C1: an operation that fails with a non-retryable failure (HTTP 400)     *)
(* is attempted exactly once: whenever the executor has seen a 400, it has *)
(* thrown after that single invocation, with no backoff delay.             *)
(***************************************************************************)
C1_NonRetryableOnce ==
    (Len(rx.calls) >= 1 /\ rx.calls[1].kind = "400")
        => (rx.st = "thrown" /\ Len(rx.calls) = 1 /\ rx.slept = <<>>)

(***************************************************************************)
(* C2: an operation that fails k times (k <= retries) and then succeeds is *)
(* invoked exactly k+1 times and the executor returns that success: the    *)
(* executor returns at the first success, with the value of that           *)
(* invocation, and never gives up while fewer than retries+1 invocations   *)
(* have failed.                                                            *)
(***************************************************************************)
C2_RetryThenSuccess ==
    /\ rx.st = "returned" =>
          /\ Len(rx.calls) = Cardinality(Failures(rx)) + 1
          /\ Failures(rx) = 1..(Len(rx.calls) - 1)
          /\ rx.out = rx.calls[Len(rx.calls)]
          /\ rx.out.ok
          /\ Len(rx.calls) = rx.attempt + 1
    /\ rx.st = "thrown" => Cardinality(Failures(rx)) = rx.retries + 1

C2_Witness ==
    /\ rx.st = "returned"
    /\ rx.retries = MAX_RETRIES
    /\ Len(rx.calls) = 3
    /\ rx.calls[1].kind = "429" /\ rx.calls[2].kind = "429"
    /\ rx.out.body.val = "v1"

(***************************************************************************)
(* C3: the operation is invoked at most retries + 1 times (4 with the      *)
(* default), and a settled call has invoked it at least once.              *)
(***************************************************************************)
C3_BoundedAttempts ==
    /\ Len(rx.calls) <= rx.retries + 1
    /\ Settled(rx) => Len(rx.calls) >= 1

C3_Witness ==
    /\ rx.st = "thrown"
    /\ rx.retries = MAX_RETRIES
    /\ Len(rx.calls) = MAX_RETRIES + 1

(***************************************************************************)
(* C4: the error the executor raises is the failure of the last invocation *)
(* of the operation: the same error object, not an earlier attempt's.      *)
(***************************************************************************)
C4_LastFailurePropagated ==
    rx.st = "thrown" =>
        /\ rx.out = rx.calls[Len(rx.calls)]
        /\ rx.out.at = Len(rx.calls)
        /\ ~rx.out.ok

C4_Witness ==
    /\ rx.st = "thrown"
    /\ Len(rx.calls) = 4
    /\ rx.calls[1].kind = "500"
    /\ rx.calls[4].kind = "429"
    /\ rx.out.kind = "429"

(***************************************************************************)
(* Helpers for the statements about the selector.                          *)
(***************************************************************************)
\* the step in which task t's initializePayment selects its subaccount
Selects(t) ==
    /\ task[t].pc = "fetch"
    /\ task'[t].op = "initializePayment"
    /\ task'[t].sel # "null"

\* the step in which task t's initializePayment receives a non-empty list
\* of subaccounts and runs selectOptimalSubaccount on it
Registers(t) == task[t].pc = "fetch" /\ task'[t].list # <<>>

\* the success rate selectOptimalSubaccount reads for uuid, the new uuids
\* of the fetched list registered
RateAtSelection(list, uuid) ==
    LET reg == Register(metrics, list)
    IN  reg[IndexOf(reg, uuid)].successRate

BelowMinimum(rate) == RatLT(rate, MinSuccessRate)

Entry(m, uuid) == m[IndexOf(m, uuid)]

\* s / t as JavaScript computes it: 0 / 0 is NaN, which equals nothing
Quotient(s, t) == <<s, t>>
NumEq(a, b) == a[2] # 0 /\ b[2] # 0 /\ RatEq(a, b)
InUnitInterval(r) == r[2] # 0 /\ RatLE(<<0, 1>>, r) /\ RatLE(r, <<1, 1>>)

(***************************************************************************)
(* C5: select never returns a subaccount id whose successRate is below the *)
(* minimum (0.8) unless every candidate id is below it: in every step in   *)
(* which initializePayment selects, a selected id below the minimum means  *)
(* all ids of the fetched list are below it.                               *)
(***************************************************************************)
C5_NeverBelowMinimum ==
    [][\A t \in Tasks :
         Selects(t) =>
            LET list == task'[t].list
            IN  BelowMinimum(RateAtSelection(list, task'[t].sel))
                  => \A i \in 1..Len(list) : BelowMinimum(RateAtSelection(list, list[i]))
      ]_vars

(***************************************************************************)
(* C6: the subaccount id select returns is a member of the subaccount set  *)
(* fetched for that call, also when the metrics Map holds ids of earlier   *)
(* fetches.                                                                *)
(***************************************************************************)
C6_SelectedIsFetched ==
    [][\A t \in Tasks : Selects(t) => InList(task'[t].list, task'[t].sel)]_vars

\* A is selected from the list <<A>> while the Map holds B, never used and
\* with the better success rate.
C6_Witness ==
    \E t \in Tasks :
        /\ task[t].op = "initializePayment" /\ task[t].pc = "initialize"
        /\ task[t].list = <<"A">> /\ task[t].sel = "A"
        /\ Has(metrics, "B") /\ Has(metrics, "A")
        /\ RatLT(Entry(metrics, "A").successRate, Entry(metrics, "B").successRate)
        /\ Entry(metrics, "B").lastUsed = 0

(***************************************************************************)
(* C7: select never returns none when at least one subaccount is known: if *)
(* every known id is below the minimum, the best of the full set is        *)
(* returned.  Stated on every step in which initializePayment receives a   *)
(* list naming at least one subaccount: selectOptimalSubaccount returns an *)
(* id of the list, and no id of the list has a higher score than the one   *)
(* returned, whatever the success rates are.                               *)
(***************************************************************************)
C7_NeverNoneWhenKnown ==
    [][\A t \in Tasks :
         Registers(t)
         => LET list == task'[t].list
                reg == Register(metrics, list)
            IN  /\ Selects(t)
                /\ InList(list, task'[t].sel)
                /\ \A i \in 1..Len(list) :
                      DblLE(WeightedScore(Entry(reg, list[i]), now),
                            WeightedScore(Entry(reg, task'[t].sel), now))
      ]_vars

\* A was selected from <<A, B>> with both below the minimum: A has one
\* failed outcome, and B, never used, was adjusted to 0 before the
\* selection (at its seed rate B would have been the one selected)
C7_Witness ==
    \E t \in Tasks :
        /\ task[t].op = "initializePayment" /\ task[t].pc = "initialize"
        /\ task[t].list = <<"A", "B">> /\ task[t].sel = "A"
        /\ Entry(metrics, "A").totalTransactions = 1
        /\ Entry(metrics, "A").successfulTransactions = 0
        /\ BelowMinimum(Entry(metrics, "A").successRate)
        /\ Entry(metrics, "B").totalTransactions = 0
        /\ BelowMinimum(Entry(metrics, "B").successRate)

(***************************************************************************)
(* C8 as stated: in every reachable state, every id's successRate equals   *)
(* successfulTransactions / totalTransactions and lies within [0,1].       *)
(***************************************************************************)
C8_RateIsQuotientAlways ==
    \A i \in 1..Len(metrics) :
        /\ NumEq(metrics[i].successRate,
                 Quotient(metrics[i].successfulTransactions, metrics[i].totalTransactions))
        /\ InUnitInterval(metrics[i].successRate)

(***************************************************************************)
(* C8 amended: after every recordOutcome call on an id (every step that    *)
(* changes its totalTransactions) its successRate equals                   *)
(* successfulTransactions / totalTransactions and lies within [0,1]; an id *)
(* registered with no outcome recorded yet has the seed rate 1.0 and both  *)
(* counters 0.                                                             *)
(***************************************************************************)
C8_RateIsQuotientAfterOutcome ==
    [][\A id \in Ids :
         Has(metrics', id) =>
            LET e == Entry(metrics', id)
                before == IF Has(metrics, id) THEN Entry(metrics, id).totalTransactions ELSE 0
            IN  /\ e.totalTransactions # before =>
                      /\ e.totalTransactions = before + 1
                      /\ NumEq(e.successRate,
                               Quotient(e.successfulTransactions, e.totalTransactions))
                      /\ InUnitInterval(e.successRate)
                /\ (~Has(metrics, id) /\ e.totalTransactions = 0) =>
                      /\ e.successRate = <<1, 1>>
                      /\ e.successfulTransactions = 0
      ]_vars

C8_Witness ==
    /\ Has(metrics, "A")
    /\ Entry(metrics, "A").totalTransactions = 2
    /\ Entry(metrics, "A").successfulTransactions = 1
    /\ Entry(metrics, "A").successRate = <<1, 2>>

(***************************************************************************)
(* C9: authorizePayment given a card with no encrypted field fails with a  *)
(* ValidationError, and no gateway call is made before it fails.           *)
(***************************************************************************)
C9_MissingEnvelopeIsValidationError ==
    \A t \in Tasks :
        (task[t].op = "authorizePayment" /\ task[t].pc = "done"
           /\ ~task[t].arg.encrypted.present)
        => /\ task[t].result.kind = "throw"
           /\ task[t].result.name = "ValidationError"
           /\ task[t].rf.n = 0

(***************************************************************************)
(* C10: retrievePayment against a gateway answering HTTP 404 returns the   *)
(* result {status: FAILED, message: 'Payment not found'} and does not      *)
(* throw.                                                                  *)
(***************************************************************************)
C10_NotFoundIsAResult ==
    \A t \in Tasks :
        (task[t].op = "retrievePayment" /\ task[t].pc = "done"
           /\ task[t].rf.st = "thrown" /\ task[t].rf.out.kind = "404")
        => /\ task[t].result.kind = "return"
           /\ task[t].result.status = "FAILED"
           /\ task[t].result.message = "Payment not found"

C10_Witness ==
    \E t \in Tasks :
        /\ task[t].op = "retrievePayment" /\ task[t].pc = "done"
        /\ task[t].arg.id = "missing-id"
        /\ task[t].rf.st = "thrown" /\ task[t].rf.out.kind = "404"
        /\ task[t].rf.n = MAX_RETRIES + 1
        /\ task[t].result.kind = "return"

(***************************************************************************)
(* Helpers for the statements about recorded outcomes.                     *)
(***************************************************************************)
TotalOf(m, id) == IF Has(m, id) THEN Entry(m, id).totalTransactions ELSE 0
SuccessfulOf(m, id) == IF Has(m, id) THEN Entry(m, id).successfulTransactions ELSE 0
LastUsedOf(m, id) == IF Has(m, id) THEN Entry(m, id).lastUsed ELSE 0

\* a step in which some call runs selectOptimalSubaccount
SomeSelects(callers) == \E t \in callers : task[t].pc = "fetch" /\ task'[t].sel # "null"

\* both callers have a call in flight
BothInFlight == \A t \in Callers : task[t].pc \notin {"idle", "done"}

(***************************************************************************)
(* C11: under any interleaving of in-flight initializePayment and          *)
(* authorizePayment calls no update of the metrics Map is lost: for every  *)
(* id totalTransactions is the number of updateSubaccountMetrics calls     *)
(* made for it and successfulTransactions the number of those with         *)
(* success = true, and a step that records an outcome without selecting    *)
(* leaves the lastUsed that select wrote.                                  *)
(***************************************************************************)
C11_NoLostUpdate ==
    /\ [](\A id \in Ids :
            /\ TotalOf(metrics, id) = recorded[id].total
            /\ SuccessfulOf(metrics, id) = recorded[id].successful)
    /\ [][\A id \in Ids :
            (recorded'[id] # recorded[id] /\ ~SomeSelects(Callers))
               => LastUsedOf(metrics', id) = LastUsedOf(metrics, id)]_vars

(***************************************************************************)
(* C12: the subaccount id authorizePayment recovers from the envelope and  *)
(* sends to the charge endpoint is the id the preceding initializePayment  *)
(* selected, sent to the initialize endpoint and sealed into the envelope  *)
(* it returned.                                                            *)
(***************************************************************************)
C12_RecoveredIsSelected ==
    [][\A t \in Tasks :
         (/\ task[t].op = "initializePayment" /\ task[t].pc = "done"
          /\ task[t].result.kind = "return"
          /\ task'[t].op = "authorizePayment"
          /\ task'[t].arg.encrypted = task[t].result.envelope)
         => /\ task[t].result.subaccount_id = task[t].sel
            /\ task[t].result.envelope.ct.subaccount_id = task[t].sel
            /\ task'[t].pc = "charge"
            /\ task'[t].sub = task[t].sel
      ]_vars

\* authorizePayment awaits the charge call with the id B, which an
\* initializePayment of this instance selected
C12_Witness ==
    \E t \in Tasks :
        /\ task[t].op = "authorizePayment" /\ task[t].pc = "charge"
        /\ task[t].sub = "B"
        /\ task[t].arg.encrypted = encrypt(CardJson("card", "B"), CfgKey, CfgIv)
        /\ Has(metrics, "B") /\ Entry(metrics, "B").lastUsed >= T0
        /\ TotalOf(metrics, "B") = 1

(***************************************************************************)
(* Helpers for the statements about the codec.                             *)
(***************************************************************************)
\* no unpaired surrogate: the strings UTF-8 can carry
WellFormed(str) ==
    \A i \in 1..Len(str) :
        /\ IsHighSurrogate(str[i]) => (i < Len(str) /\ IsLowSurrogate(str[i + 1]))
        /\ IsLowSurrogate(str[i]) => (i > 1 /\ IsHighSurrogate(str[i - 1]))

\* encrypt threw, or decrypt was given the key and iv encrypt was given
\* and has ended
CodecSettled ==
    \/ cx.st = "encryptThrew"
    \/ cx.st \in {"opened", "decryptThrew"} /\ cx.openKey = cx.key /\ cx.openIv = cx.iv

(***************************************************************************)
(* C13: round trip.  For every string s that UTF-8 can carry (no unpaired  *)
(* surrogate) and every fixed (key, iv),                                   *)
(* decrypt(encrypt(s, key, iv), key, iv) == s: encrypt returns, and        *)
(* decrypt under the same key and iv returns s.                            *)
(***************************************************************************)
C13_RoundTrip ==
    (CodecSettled /\ WellFormed(cx.text)) => (cx.st = "opened" /\ cx.out = cx.text)

(***************************************************************************)
(* Helpers for the statements about initializePayment's outcomes.          *)
(***************************************************************************)
\* the step in which task t's initializePayment settles
InitializeSettles(t) ==
    /\ task[t].pc # "done" \/ task[t].op # "initializePayment" \/ task'[t].arg # task[t].arg
    /\ task'[t] # task[t]
    /\ task'[t].op = "initializePayment" /\ task'[t].pc = "done"

(***************************************************************************)
(* C14: when initializePayment fails after a subaccount was selected, one  *)
(* failed outcome is recorded against the selected id before the error     *)
(* leaves; when it fails before selection, the metrics Map is unchanged.   *)
(***************************************************************************)
C14_FailureRecordedIffSelected ==
    [][\A t \in Tasks :
         (InitializeSettles(t) /\ task'[t].result.kind = "throw")
         => IF task'[t].sel # "null"
            THEN LET id == task'[t].sel
                 IN  /\ Has(metrics', id)
                     /\ TotalOf(metrics', id) = TotalOf(metrics, id) + 1
                     /\ SuccessfulOf(metrics', id) = SuccessfulOf(metrics, id)
                     /\ Entry(metrics', id).successRate
                          = <<SuccessfulOf(metrics, id), TotalOf(metrics, id) + 1>>
            ELSE metrics' = metrics
      ]_vars

\* the initialize call failed on all four attempts after A was selected
C14_Witness ==
    \E t \in Tasks :
        /\ task[t].op = "initializePayment" /\ task[t].pc = "done"
        /\ task[t].result.kind = "throw" /\ task[t].sel = "A"
        /\ task[t].rf.st = "thrown" /\ task[t].rf.n = MAX_RETRIES + 1
        /\ TotalOf(metrics, "A") = 1 /\ SuccessfulOf(metrics, "A") = 0

(***************************************************************************)
(* C15: when the initialize call of initializePayment returns, one outcome *)
(* is recorded against the selected id, and it is a success if and only if *)
(* the mapped status is not FAILED.                                        *)
(***************************************************************************)
C15_SuccessIffNotFailed ==
    [][\A t \in Tasks :
         (InitializeSettles(t) /\ task'[t].result.kind = "return")
         => LET id == task'[t].sel
                good == IF task'[t].result.status # "FAILED" THEN 1 ELSE 0
            IN  /\ task'[t].result.status
                     = handleRexpayResponseStatus(task'[t].rf.out.body.status)
                /\ TotalOf(metrics', id) = TotalOf(metrics, id) + 1
                /\ SuccessfulOf(metrics', id) = SuccessfulOf(metrics, id) + good
      ]_vars

\* a PENDING answer counted as a success
C15_Witness ==
    \E t \in Tasks :
        /\ task[t].op = "initializePayment" /\ task[t].pc = "done"
        /\ task[t].result.kind = "return" /\ task[t].result.status = "PENDING"
        /\ TotalOf(metrics, task[t].sel) = 1 /\ SuccessfulOf(metrics, task[t].sel) = 1

(***************************************************************************)
(* Helpers for the statements about authorizePayment's outcomes.           *)
(***************************************************************************)
\* the step in which the charge call of task t's authorizePayment returns
ChargeCompletes(t) ==
    /\ task[t].op = "authorizePayment" /\ task[t].pc = "charge"
    /\ task'[t].pc = "done" /\ task'[t].result.kind = "return"

(***************************************************************************)
(* C16: every authorizePayment whose charge call completes records an      *)
(* outcome against the subaccount id recovered from the envelope, success  *)
(* if and only if the mapped status is not FAILED: the id's                *)
(* totalTransactions increases by one.                                     *)
(***************************************************************************)
C16_ChargeOutcomeRecorded ==
    [][\A t \in Tasks :
         (ChargeCompletes(t) /\ task[t].sub \in Ids)
         => LET id == task[t].sub
                good == IF task'[t].result.status # "FAILED" THEN 1 ELSE 0
            IN  /\ TotalOf(metrics', id) = TotalOf(metrics, id) + 1
                /\ SuccessfulOf(metrics', id) = SuccessfulOf(metrics, id) + good
      ]_vars

EqualsIgnoringCase(a, b) ==
    /\ Len(a) = Len(b)
    /\ \A i \in 1..Len(a) :
          \/ CharAt(a, i) = CharAt(b, i)
          \/ \E k \in 1..Len(UpperLetters) :
                {CharAt(a, i), CharAt(b, i)} = {CharAt(UpperLetters, k), CharAt(LowerLetters, k)}

C18_TerminalStatesStay ==
    [][\A t \in Tasks : life[t] \in Terminal => life'[t] = life[t]]_vars

(***************************************************************************)
(* Helpers for the statements about initializePayment's input validation.  *)
(***************************************************************************)
CardNumber(card) ==
    CASE card = "card" -> <<4, 1, 1, 1, 1, 1, 1, 1, 1, 1, 1, 1, 1, 1, 1, 1>>
      [] card = "cardBadLuhn" -> <<4, 1, 1, 1, 1, 1, 1, 1, 1, 1, 1, 1, 1, 1, 1, 2>>
      [] OTHER -> <<>>

\* the Luhn sum: from the right, every second digit doubled, 9 taken off
\* a doubled digit above 9
RECURSIVE LuhnSum(_, _)
LuhnSum(digits, double) ==
    IF digits = <<>> THEN 0
    ELSE LET d == digits[Len(digits)]
             v == IF double THEN (IF 2 * d > 9 THEN 2 * d - 9 ELSE 2 * d) ELSE d
         IN  v + LuhnSum(SubSeq(digits, 1, Len(digits) - 1), ~double)

LuhnValid(digits) == digits # <<>> /\ LuhnSum(digits, FALSE) % 10 = 0

\* the call was refused before anything was sent to the gateway
RefusedUpFront(tk, name, message) ==
    /\ tk.pc = "done" /\ tk.result.kind = "throw"
    /\ name # "" => tk.result.name = name
    /\ message # "" => tk.result.message = message
    /\ tk.rf.n = 0 /\ tk.list = <<>> /\ tk.sel = "null"

(***************************************************************************)
(* C19: initializePayment on a payment with no card instrument fails with  *)
(* a ValidationError, before any gateway call.                             *)
(***************************************************************************)
C19_NoCardIsValidationError ==
    \A t \in Tasks :
        (task[t].op = "initializePayment" /\ task[t].arg.card \in {"noCard", "noInstrument"})
        => RefusedUpFront(task[t], "ValidationError", "")

(***************************************************************************)
(* C20: initializePayment rejects a payment whose card number fails the    *)
(* Luhn check with an error whose message contains 'Invalid card number',  *)
(* instead of sending the card to the gateway.                             *)
(***************************************************************************)
C20_LuhnInvalidRejected ==
    \A t \in Tasks :
        (/\ task[t].op = "initializePayment"
         /\ CardNumber(task[t].arg.card) # <<>>
         /\ ~LuhnValid(CardNumber(task[t].arg.card)))
        => RefusedUpFront(task[t], "", "Invalid card number")

(***************************************************************************)
(* Helpers for the statement about progress during a retry delay.          *)
(***************************************************************************)
Asleep(t) == task[t].rf.st = "sleeping"
InFlight(t) == task[t].pc \notin {"idle", "done"}

\* the next step of u's call can be taken
CanStep(u) ==
    /\ (task[u].pc \in {"fetch", "initialize"} /\ task[u].rf.st = "calling")
          => ENABLED InitializeAnswer(u)
    /\ (task[u].pc = "charge" /\ task[u].rf.st = "calling") => ENABLED ChargeAnswer(u)
    /\ Asleep(u) => ENABLED RetryTimer(u)

(***************************************************************************)
(* C21: while one call is suspended in a retry delay the other calls on    *)
(* the instance make progress.  Entering and leaving the delay changes     *)
(* only the sleeping call's own frame, not the metrics Map nor another     *)
(* call; while t1 sleeps the next step of t2's call (its select, its       *)
(* recorded outcome, its gateway call settling) can be taken; and t2's     *)
(* call in flight completes even if t1's timer never fires.                *)
(***************************************************************************)
C21_ProgressDuringDelay ==
    /\ [][\A t \in Callers :
            ((Asleep(t) \/ task'[t].rf.st = "sleeping") /\ task'[t] # task[t])
            => /\ metrics' = metrics
               /\ \A u \in Callers \ {t} : task'[u] = task[u]]_vars
    /\ [](\A t \in Callers, u \in Callers : (t # u /\ Asleep(t)) => CanStep(u))
    /\ (InFlight("t2") ~> task["t2"].pc = "done")

\* t1 is in its first retry delay while t2's initializePayment, started on
\* the same instance, has selected and has its outcome recorded
C21_Witness ==
    /\ Asleep("t1") /\ task["t1"].pc = "fetch"
    /\ task["t2"].op = "initializePayment" /\ task["t2"].pc = "done"
    /\ task["t2"].result.kind = "return"
    /\ TotalOf(metrics, task["t2"].sel) = 1

(***************************************************************************)
(* Helpers for the statement about recency ties.                           *)
(***************************************************************************)
\* the successRate field the gateway reports with each fetched subaccount;
\* selectOptimalSubaccount reads sub.uuid and nothing else of it
FetchedSuccessRate(uuid) == IF uuid = "A" THEN <<95, 100>> ELSE <<99, 100>>

\* the fetched candidates have one and the same lastUsed when select runs
RecencyTies(list) ==
    LET reg == Register(metrics, list)
    IN  \A i \in 1..Len(list), j \in 1..Len(list) :
            Entry(reg, list[i]).lastUsed = Entry(reg, list[j]).lastUsed

(***************************************************************************)
(* C22: when the fetched candidates have equal lastUsed, select returns    *)
(* the one with the highest success rate: of the fetched subaccounts A     *)
(* with success rate 0.95 and B with 0.99, B.                              *)
(***************************************************************************)
C22_TieGoesToHighestRate ==
    [][\A t \in Tasks :
         (Selects(t) /\ RecencyTies(task'[t].list))
         => \A i \in 1..Len(task'[t].list) :
                RatLE(FetchedSuccessRate(task'[t].list[i]),
                      FetchedSuccessRate(task'[t].sel))
      ]_vars

(***************************************************************************)
(* Helpers for the statement about the classification of failures.         *)
(***************************************************************************)
\* the kind and the retry decision the table of the classifier gives
TableKind(error) ==
    CASE error.kind \in {"400", "422"} -> "Validation"
      [] error.kind = "401" -> "Authentication"
      [] error.kind = "403" -> "Authorization"
      [] error.kind = "404" -> "NotFound"
      [] error.kind = "409" -> "Conflict"
      [] error.kind = "429" -> "RateLimited"
      [] error.kind \in {"500", "503"} -> "GatewayInternal"
      [] error.kind = "ECONNABORTED" -> "Timeout"
      [] error.kind \in {"ENOTFOUND", "ECONNREFUSED"} -> "Unreachable"
      [] OTHER -> "Unexpected"

TableRetryable(error) ==
    TableKind(error) \in {"RateLimited", "GatewayInternal", "Timeout", "Unreachable"}

\* the kind an error thrown by handleError stands for
KindOf(thrown) ==
    CASE thrown.name = "ValidationError" -> "Validation"
      [] thrown.name = "InternalServerError" -> "GatewayInternal"
      [] thrown.name = "PaymentError" -> "Unexpected"
      [] thrown.message = <<"Authentication failed. Please check your API credentials.">>
            -> "Authentication"
      [] thrown.message = <<"Insufficient permissions to perform this action.">>
            -> "Authorization"
      [] thrown.message = <<"The requested resource was not found.">> -> "NotFound"
      [] thrown.message = <<"A conflict occurred while processing your request.">>
            -> "Conflict"
      [] thrown.message = <<"Rate limit exceeded. Please try again later.">> -> "RateLimited"
      [] thrown.message = <<"Request timed out. Please try again.">> -> "Timeout"
      [] OTHER -> "Unreachable"

\* executeWithRetry has seen the failure once
FirstFailureSeen == fx.rf.n = 1 /\ fx.rf.attempt = 0

(***************************************************************************)
(* C23: a failed gateway call is classified by the table: 400 and 422      *)
(* Validation, 401 Authentication, 403 Authorization, 404 NotFound, 409    *)
(* Conflict, none of them retried; 429 RateLimited, 500 and above          *)
(* GatewayInternal, a timeout and DNS or connection refused retried; a     *)
(* failure without HTTP context or matching no row Unexpected and not      *)
(* retried.                                                                *)
(***************************************************************************)
C23_ClassifiedByTable ==
    /\ fx.st = "classified" => KindOf(fx.thrown) = TableKind(fx.error)
    /\ FirstFailureSeen => (fx.rf.st = "sleeping" <=> TableRetryable(fx.error))

(***************************************************************************)
(* Helpers for the statement about gateway failures.                       *)
(***************************************************************************)
\* the gateway call of t's operation failed on every attempt
GatewayFailed(t) == task[t].pc = "done" /\ task[t].rf.st = "thrown"

NotFoundOnRetrieve(t) ==
    task[t].op = "retrievePayment" /\ ResponseStatus(task[t].rf.out) = "404"

(***************************************************************************)
(* C24: a gateway call that still fails when the retries are exhausted     *)
(* leaves initializePayment, authorizePayment, retrievePayment (404 apart),*)
(* finalizePayment and refundPayment as a PaymentError that carries the    *)
(* failure as its cause; none of them returns a result.                    *)
(***************************************************************************)
C24_GatewayFailureIsPaymentError ==
    \A t \in Tasks :
        (GatewayFailed(t) /\ ~NotFoundOnRetrieve(t))
        => /\ task[t].result.kind = "throw"
           /\ task[t].result.name = "PaymentError"
           /\ task[t].result.cause = task[t].rf.out

(***************************************************************************)
(* Helpers for the statement about envelopes that do not decrypt.          *)
(***************************************************************************)
\* t's authorizePayment was given an envelope that encrypt did not make
\* under the configured key and iv
BadEnvelopeGiven(t) ==
    /\ task[t].op = "authorizePayment"
    /\ task[t].arg.encrypted.present
    /\ \/ task[t].arg.encrypted.k # DeriveKey(CfgKey)
       \/ task[t].arg.encrypted.v # DeriveIv(CfgIv)

(***************************************************************************)
(* C25: authorizePayment given an envelope that is corrupt, truncated or   *)
(* made with another key or iv fails with a DecryptionError, and the       *)
(* charge call is never made.                                              *)
(***************************************************************************)
C25_BadEnvelopeIsDecryptionError ==
    \A t \in Tasks :
        BadEnvelopeGiven(t)
        => /\ task[t].pc = "done" /\ task[t].rf.n = 0
           /\ task[t].result.kind = "throw"
           /\ task[t].result.name = "DecryptionError"

(***************************************************************************)
(* C26: authorizePayment returns, with the mapped status, the 3-D-Secure   *)
(* challenge descriptor of the charge response whenever the response has   *)
(* one: the token is its cReq and the URL its acsUrl.                      *)
(***************************************************************************)
C26_ChallengeSurfaced ==
    \A t \in Tasks :
        (/\ task[t].op = "authorizePayment" /\ task[t].pc = "done"
         /\ task[t].result.kind = "return"
         /\ task[t].rf.out.body.gw = "3ds2")
        => /\ task[t].result.status = handleRexpayResponseStatus(task[t].rf.out.body.status)
           /\ task[t].result.detail = "3ds2"

(***************************************************************************)
(* Helpers for the statement about amounts.                                *)
(***************************************************************************)
\* a whole, non-negative number of minor units
WholeAmount(amount) == amount[2] = 1 /\ amount[1] >= 0

Times100(x) == <<x[1] * 100, x[2]>>

(***************************************************************************)
(* C27: the amount sent to the gateway is the payment amount converted     *)
(* from minor to major units: for every whole amount a >= 0 the amount     *)
(* sent, times 100, is a, in initialize, authorize and refund requests.    *)
(***************************************************************************)
C27_AmountInMajorUnits ==
    (fx.st = "built" /\ WholeAmount(fx.amount))
    => /\ fx.sent # "undefined"
       /\ RatEq(Times100(fx.sent), fx.amount)

(***************************************************************************)
(* C28: refundPayment takes its result status from the boolean status of   *)
(* the response, true SUCCESS and false FAILED, whatever status string the *)
(* response carries; when the refund call fails it throws an error whose   *)
(* message starts with 'Failed to refund payment' and returns nothing.     *)
(***************************************************************************)
C28_RefundStatusFromFlag ==
    \A t \in Tasks :
        (task[t].op = "refundPayment" /\ task[t].pc = "done")
        => IF task[t].rf.st = "returned"
           THEN /\ task[t].result.kind = "return"
                /\ task[t].result.status =
                      (IF task[t].rf.out.body.status = "true" THEN "SUCCESS" ELSE "FAILED")
           ELSE /\ task[t].rf.st = "thrown"
                /\ task[t].result.kind = "throw"
                /\ task[t].result.message = "Failed to refund payment"

\* a refund the gateway flagged false while its data said success, returned
\* as FAILED, after one failed attempt
C28_Witness ==
    \E t \in Tasks :
        /\ task[t].op = "refundPayment" /\ task[t].pc = "done"
        /\ task[t].rf.n = 2
        /\ task[t].rf.out.body.status = "false" /\ task[t].rf.out.body.gw = "success"
        /\ task[t].result.kind = "return" /\ task[t].result.status = "FAILED"

(***************************************************************************)
(* Helpers for the statement about a gateway_response that does not parse. *)
(***************************************************************************)
\* t's retrievePayment got a response whose gateway_response is not JSON
MalformedRetrieved(t) ==
    /\ task[t].op = "retrievePayment" /\ task[t].pc = "done"
    /\ task[t].rf.st = "returned" /\ task[t].rf.out.body.gw = "malformed"

(***************************************************************************)
(* C29: retrievePayment whose response carries a gateway_response string   *)
(* that is not valid JSON returns a result with the mapped status and no   *)
(* gateway detail: the parse failure neither throws nor changes the        *)
(* status.                                                                 *)
(***************************************************************************)
C29_MalformedDetailIgnored ==
    \A t \in Tasks :
        MalformedRetrieved(t)
        => /\ task[t].result.kind = "return"
           /\ task[t].result.status = handleRexpayResponseStatus(task[t].rf.out.body.status)
           /\ task[t].result.detail = "none"

\* a retrieve with a malformed gateway_response returned as FAILED, the
\* status the gateway gave
C29_Witness ==
    \E t \in Tasks :
        /\ MalformedRetrieved(t)
        /\ task[t].rf.out.body.status = "FAILED"
        /\ task[t].result.kind = "return" /\ task[t].result.status = "FAILED"
        /\ task[t].result.message = "Payment retrieved"

(***************************************************************************)
(* C30: select updates lastUsed of the chosen id at selection time and     *)
(* recordOutcome does not change lastUsed, so that a second selection made *)
(* before either payment settles already sees the first selection's        *)
(* update.  Stated on every step of two callers of one service instance:   *)
(* a selecting step leaves the chosen id's lastUsed at the current time    *)
(* and every other id's as it was; no other step, the recording of an      *)
(* outcome included, changes any lastUsed; and a selection made while      *)
(* another caller's payment is selected and not settled is the selection   *)
(* on the Map that holds that caller's update.                             *)
(***************************************************************************)
C30_LastUsedSetAtSelection ==
    [][/\ \A t \in Callers :
            Selects(t)
            => /\ Entry(metrics', task'[t].sel).lastUsed = now
               /\ \A i \in 1..Len(metrics) :
                     metrics[i].uuid # task'[t].sel
                     => metrics'[i].lastUsed = metrics[i].lastUsed
       /\ (\A t \in Callers : ~Selects(t))
            => \A i \in 1..Len(metrics) : metrics'[i].lastUsed = metrics[i].lastUsed
       /\ \A t \in Callers : \A u \in Callers \ {t} :
            (/\ Selects(t)
             /\ task[u].op = "initializePayment" /\ task[u].pc = "initialize")
            => /\ Entry(metrics, task[u].sel).lastUsed >= T0
               /\ task'[t].sel = selectOptimalSubaccount(metrics, task'[t].list, now).uuid
      ]_vars

\* two payments selected and neither settled: no outcome is recorded yet,
\* and A carries the time of the first selection, B that of the second
C30_Witness ==
    /\ task["t1"].op = "initializePayment" /\ task["t1"].pc = "initialize"
    /\ task["t2"].op = "initializePayment" /\ task["t2"].pc = "initialize"
    /\ task["t1"].sel = "A" /\ task["t2"].sel = "B"
    /\ task["t1"].list = <<"A", "B">> /\ task["t2"].list = <<"B">>
    /\ now = T0 + 1
    /\ Entry(metrics, "A").lastUsed = T0 /\ Entry(metrics, "B").lastUsed = T0 + 1
    /\ Entry(metrics, "A").totalTransactions = 0
    /\ Entry(metrics, "B").totalTransactions = 0

(***************************************************************************)
(* SpecSelect: one selection by each of the two selectors, over the        *)
(* metrics Maps the service can hold (ids in either insertion order, used  *)
(* at construction time or never, with no outcome, a success or a failure  *)
(* recorded) and the lists a fetch can return.                             *)
(***************************************************************************)
\* successfulTransactions and totalTransactions of an entry
SelectCounts == {<<0, 0>>, <<1, 1>>, <<0, 1>>}

SelectEntry(uuid, counts, lastUsed) ==
    [uuid |-> uuid, successRate |-> IF counts[2] = 0 THEN <<1, 1>> ELSE counts,
     lastUsed |-> lastUsed,
     totalTransactions |-> counts[2], successfulTransactions |-> counts[1]]

SelectMaps ==
    UNION {{[i \in 1..Len(o) |-> SelectEntry(o[i], c[i], u[i])] :
                c \in [1..Len(o) -> SelectCounts], u \in [1..Len(o) -> {0, T0}]} :
           o \in FetchLists}

InitSelect ==
    /\ \E m \in SelectMaps, list \in FetchLists, t \in {T0, T0 + 1} :
         fx = [m |-> m, list |-> list, t |-> t, st |-> "input",
               out |-> [metrics |-> m, threw |-> FALSE, uuid |-> "undefined"],
               outB |-> "null"]
    /\ rx = RetryStart(MAX_RETRIES)
    /\ metrics = <<>> /\ now = 0 /\ startTime = 0 /\ task = <<>> /\ config = DefaultConfig /\ sink = <<>>
    /\ ops = 0 /\ adjusts = 0 /\ recorded = <<>> /\ life = <<>>
    /\ cx = <<>> /\ sx = <<>>

\* selectOptimalSubaccount(list) of RexpayV3Service.ts and
\* selectBestSubaccount() of part_001, each on the Map m at time t
SelectCall ==
    /\ fx.st = "input"
    /\ fx' = [fx EXCEPT !.st = "selected",
                        !.out = selectOptimalSubaccount(fx.m, fx.list, fx.t),
                        !.outB = selectBestSubaccount(fx.m, fx.t)]
    /\ UNCHANGED <<retryVars, svcVars, codecVars, statusVars>>

SpecSelect == InitSelect /\ [][SelectCall]_vars

(***************************************************************************)
(* C31: when several candidate subaccounts have exactly equal scores,      *)
(* select returns the one that was first seen, the earliest inserted into  *)
(* the metrics map, whatever the order of the ids in the fetched list: no  *)
(* candidate with the score of the returned id stands before it in the Map.*)
(***************************************************************************)
C31_TieGoesToFirstSeen ==
    fx.st = "selected"
    => /\ ~fx.out.threw
           => LET reg == Register(fx.m, fx.list)
                  sel == IndexOf(reg, fx.out.uuid)
              IN  \A i \in 1..Len(reg) :
                      (/\ InList(fx.list, reg[i].uuid)
                       /\ DblEq(WeightedScore(reg[i], fx.t), WeightedScore(reg[sel], fx.t)))
                      => sel <= i
       /\ fx.outB # "null"
           => LET sel == IndexOf(fx.m, fx.outB)
              IN  \A i \in 1..Len(fx.m) :
                      (/\ ~B_Skips(fx.m[i])
                       /\ DblEq(B_Score(fx.m[i], fx.t), B_Score(fx.m[sel], fx.t)))
                      => sel <= i

\* A was seen before B, both were used at the same time and have the same
\* rate, the fetched list names B first: both selectors return A
C31_Witness ==
    /\ fx.st = "selected"
    /\ Len(fx.m) = 2 /\ fx.m[1].uuid = "A" /\ fx.m[2].uuid = "B"
    /\ fx.m[1].lastUsed = fx.m[2].lastUsed
    /\ RatEq(fx.m[1].successRate, fx.m[2].successRate)
    /\ fx.list = <<"B", "A">>
    /\ fx.out.uuid = "A" /\ fx.outB = "A"

(***************************************************************************)
(* C32: load balancing.  Among subaccounts with equal success rates,       *)
(* select prefers the least recently used one, so that of two or more      *)
(* equally successful subaccounts offered on repeated initializePayment    *)
(* calls every one is eventually selected.  Stated on every selection: no  *)
(* fetched id with the success rate of the selected one was used longer    *)
(* ago than it.                                                            *)
(***************************************************************************)
C32_LeastRecentlyUsedPreferred ==
    [][\A t \in Tasks :
         Selects(t)
         => LET reg == Register(metrics, task'[t].list)
                chosen == Entry(reg, task'[t].sel)
            IN  \A i \in 1..Len(reg) :
                    (/\ InList(task'[t].list, reg[i].uuid)
                     /\ RatEq(reg[i].successRate, chosen.successRate))
                    => chosen.lastUsed <= reg[i].lastUsed]_vars

(***************************************************************************)
(* Helpers for the statement about registration.                           *)
(***************************************************************************)
\* the entry of uuid before the step, or the entry a first sighting is to
\* create
EntryBefore(uuid) == IF Has(metrics, uuid) THEN Entry(metrics, uuid) ELSE NewMetrics(uuid)

(***************************************************************************)
(* C33: registration is lazy and idempotent and entries are never removed: *)
(* an id first seen in a fetch gets metrics with successRate 1.0 and zero  *)
(* counts, an already known id seen again keeps its metrics, and the ids   *)
(* of the metrics map never shrink.  On every step the ids present stay,   *)
(* in their places; in a step that registers a fetched list every fetched  *)
(* id that is not the selected one has the entry it had, or the seed       *)
(* entry if it is new, and the selected one differs from that by lastUsed  *)
(* alone while its payment is in flight.                                   *)
(***************************************************************************)
C33_RegistrationLazyIdempotent ==
    [][/\ Len(metrics') >= Len(metrics)
       /\ \A i \in 1..Len(metrics) : metrics'[i].uuid = metrics[i].uuid
       /\ \A t \in Tasks :
             Registers(t)
             => \A k \in 1..Len(task'[t].list) :
                  LET uuid == task'[t].list[k]
                  IN  /\ Has(metrics', uuid)
                      /\ uuid # task'[t].sel => Entry(metrics', uuid) = EntryBefore(uuid)
                      /\ (uuid = task'[t].sel /\ task'[t].pc = "initialize")
                            => Entry(metrics', uuid) = [EntryBefore(uuid) EXCEPT !.lastUsed = now]]_vars

\* A, known with one failed payment, was fetched again together with the
\* new id B: A kept its counts, B got the seed entry and was selected
C33_Witness ==
    \E t \in Tasks :
        /\ task[t].pc = "initialize" /\ task[t].list = <<"B", "A">> /\ task[t].sel = "B"
        /\ Len(metrics) = 2
        /\ metrics[1].uuid = "A" /\ metrics[1].totalTransactions = 1
        /\ metrics[1].successRate = <<0, 1>>
        /\ metrics[2] = [NewMetrics("B") EXCEPT !.lastUsed = now]

(***************************************************************************)
(* C34: backoff delays are exponential in the attempt index: the delay     *)
(* before the retry that follows failed attempt n (n = 0 for the first     *)
(* try) is the initial delay times 2^n, 1000 ms, 2000 ms, 4000 ms with the *)
(* defaults; delays are strictly increasing, and no delay is taken after   *)
(* the final failed attempt.  The delays awaited so far start at 1000 and  *)
(* double each time; there is one per failed invocation while the call is  *)
(* going on, and one fewer than invocations once it has settled.           *)
(***************************************************************************)
C34_BackoffDoubles ==
    /\ Len(rx.slept) >= 1 => rx.slept[1] = 1000
    /\ \A i \in 1..(Len(rx.slept) - 1) :
          /\ rx.slept[i + 1] = 2 * rx.slept[i]
          /\ rx.slept[i] < rx.slept[i + 1]
    /\ Len(rx.slept) <= rx.retries
    /\ rx.st \in {"calling", "sleeping"} => Len(rx.slept) = Len(rx.calls)
    /\ rx.st \in {"returned", "thrown"} => Len(rx.slept) = Len(rx.calls) - 1

\* four invocations failed under the default policy: the call threw after
\* delays of 1000, 2000 and 4000 ms
C34_Witness ==
    /\ rx.st = "thrown" /\ rx.retries = MAX_RETRIES
    /\ Len(rx.calls) = 4
    /\ rx.slept = <<1000, 2000, 4000>>

(***************************************************************************)
(* SpecConfig: Spec for a service deployed with either of two values of    *)
(* REXPAY_ENCRYPTION_IV: one of 16 bytes once padded, and one holding a    *)
(* two-byte character, which pads to 17 bytes.                             *)
(***************************************************************************)
Configs == {DefaultConfig, [DefaultConfig EXCEPT !.encryption_iv = <<233>>]}

InitConfig ==
    /\ config \in Configs /\ sink = <<>>
    /\ rx = RetryStart(MAX_RETRIES)
    /\ metrics = <<>>
    /\ now = T0
    /\ startTime = 0
    /\ task = [t \in Tasks |-> IdleTask]
    /\ ops = 0
    /\ adjusts = 0
    /\ recorded = <<>>
    /\ life = <<>>
    /\ cx = <<>> /\ sx = <<>> /\ fx = <<>>

SpecConfig == InitConfig /\ [][Next]_vars

(***************************************************************************)
(* C35: each initializePayment invocation that selected a subaccount       *)
(* records exactly one outcome against it: the selected id's               *)
(* totalTransactions increases by exactly 1 per invocation, whether the    *)
(* invocation succeeds or fails at any step after selection, a failure     *)
(* after the outcome of the gateway call has been recorded included.  The  *)
(* outcome is recorded in the step that settles the invocation.            *)
(***************************************************************************)
C35_ExactlyOneOutcome ==
    [][\A t \in Tasks :
         (InitializeSettles(t) /\ task'[t].sel # "null")
         => TotalOf(metrics', task'[t].sel) = TotalOf(metrics, task'[t].sel) + 1]_vars

(***************************************************************************)
(* C36: an authorizePayment that fails (missing or undecryptable envelope, *)
(* or charge call failing after all retries) leaves the subaccount metrics *)
(* map unchanged: no failed outcome is recorded against the recovered      *)
(* subaccount, unlike a failed initializePayment.  No step of an           *)
(* authorizePayment changes the Map unless it is the step that returns.    *)
(***************************************************************************)
C36_FailedAuthorizeRecordsNothing ==
    [][\A t \in Tasks :
         (/\ task'[t].op = "authorizePayment" /\ task'[t] # task[t]
          /\ task'[t].result.kind # "return")
         => metrics' = metrics]_vars

\* after an initializePayment that recorded one outcome for A, the charge
\* call of the authorizePayment for A failed on all four attempts: A still
\* has one outcome
C36_Witness ==
    \E t \in Tasks :
        /\ task[t].op = "authorizePayment" /\ task[t].pc = "done"
        /\ task[t].result.kind = "throw" /\ task[t].result.name = "PaymentError"
        /\ task[t].sub = "A"
        /\ task[t].rf.st = "thrown" /\ task[t].rf.n = MAX_RETRIES + 1
        /\ TotalOf(metrics, "A") = 1

(***************************************************************************)
(* Helpers for the statement about what recording an outcome changes.      *)
(***************************************************************************)
\* a step of task t in which updateSubaccountMetrics is called for id and
\* nothing else writes to the Map: the charge call of authorizePayment
\* returned, or the initialize call of initializePayment settled
RecordsOnly(t, id) ==
    \/ ChargeCompletes(t) /\ task[t].sub = id
    \/ /\ task[t].op = "initializePayment" /\ task[t].pc = "initialize"
       /\ task'[t].pc = "done" /\ task[t].sel = id

(***************************************************************************)
(* C37: recordOutcome (updateSubaccountMetrics) for id X changes only X's  *)
(* totalTransactions, successfulTransactions and successRate: every other  *)
(* id's metrics and X's lastUsed are unchanged, and a call with an id not  *)
(* in the metrics map (an id recovered from an envelope by a fresh service *)
(* instance) changes nothing and creates no entry.                         *)
(***************************************************************************)
C37_OutcomeTouchesOnlyItsCounts ==
    [][\A t \in Tasks : \A id \in Ids :
         RecordsOnly(t, id)
         => /\ Len(metrics') = Len(metrics)
            /\ \A i \in 1..Len(metrics) :
                  /\ metrics'[i].uuid = metrics[i].uuid
                  /\ metrics'[i].lastUsed = metrics[i].lastUsed
                  /\ metrics[i].uuid # id => metrics'[i] = metrics[i]
            /\ ~Has(metrics, id) => metrics' = metrics]_vars

\* the charge call of an authorizePayment for B returned on a service that
\* knows A only: no entry for B, A as it was after its own payment
C37_Witness ==
    \E t \in Tasks :
        /\ task[t].op = "authorizePayment" /\ task[t].pc = "done"
        /\ task[t].result.kind = "return" /\ task[t].sub = "B"
        /\ Len(metrics) = 1 /\ metrics[1].uuid = "A"
        /\ metrics[1].totalTransactions = 1 /\ metrics[1].lastUsed = T0

(***************************************************************************)
(* SpecTime: two callers of one service instance, each running             *)
(* authorizePayment, retrievePayment and finalizePayment calls, with the   *)
(* processing time every call gives to the metrics sink kept next to the   *)
(* time the call began.                                                    *)
(***************************************************************************)
InitTime ==
    /\ rx = RetryStart(MAX_RETRIES)
    /\ metrics = <<>>
    /\ now = T0
    /\ startTime = 0
    /\ config = DefaultConfig
    /\ sink = [t \in Callers |-> [started |-> 0, reported |-> -1]]
    /\ task = [t \in Callers |-> IdleTask]
    /\ ops = 0
    /\ adjusts = 0
    /\ recorded = <<>>
    /\ life = <<>>
    /\ cx = <<>> /\ sx = <<>> /\ fx = <<>>

NextTime ==
    \/ \E t \in Callers : StartAuthorize(t)
    \/ \E t \in Callers : ChargeAnswer(t)
    \/ \E t \in Callers : StartRetrieve(t)
    \/ \E t \in Callers : RetrieveAnswer(t)
    \/ \E t \in Callers : StartFinalize(t)
    \/ \E t \in Callers : FinalizeAnswer(t)
    \/ \E t \in Callers : RetryTimer(t)
    \/ Tick

SpecTime == InitTime /\ [][NextTime]_vars

(***************************************************************************)
(* C38: under concurrent authorizePayment, retrievePayment and             *)
(* finalizePayment invocations on one service instance, the processing     *)
(* time each operation reports to the metrics sink is measured from that   *)
(* operation's own start: no other in-flight operation can overwrite the   *)
(* start time an operation uses.  In the step in which a call reports, the *)
(* time it reports is the time elapsed since it began.                     *)
(***************************************************************************)
C38_MeasuredFromOwnStart ==
    [][\A t \in DOMAIN sink :
         (sink'[t] # sink[t] /\ sink'[t].reported # -1)
         => sink'[t].reported = now - sink'[t].started]_vars

(***************************************************************************)
(* Helpers for the statement about an empty list of subaccounts.           *)
(***************************************************************************)
\* the step in which the fetch of task t's initializePayment returns an
\* empty list
EmptyFetchArrives(t) ==
    /\ task[t].op = "initializePayment" /\ task[t].pc = "fetch"
    /\ task[t].rf.st = "calling"
    /\ task'[t].rf.st = "returned" /\ task'[t].rf.out.body.list = <<>>

(***************************************************************************)
(* C39: initializePayment whose subaccount fetch returns an empty list     *)
(* fails with a PaymentError without calling the initialize endpoint,      *)
(* without recording any outcome and without adding or changing any        *)
(* metrics entry: the step in which the empty list arrives settles the     *)
(* call with the error, nothing selected, the Map as it was.               *)
(***************************************************************************)
C39_EmptyFetchFailsCleanly ==
    [][\A t \in Tasks :
         EmptyFetchArrives(t)
         => /\ task'[t].pc = "done"
            /\ task'[t].result.kind = "throw" /\ task'[t].result.name = "PaymentError"
            /\ task'[t].sel = "null"
            /\ metrics' = metrics]_vars

\* a service that knows A with one outcome got an empty list: the call
\* failed on the TypeError of selectOptimalSubaccount and A is as it was
C39_Witness ==
    \E t \in Tasks :
        /\ task[t].op = "initializePayment" /\ task[t].pc = "done"
        /\ task[t].rf.st = "returned" /\ task[t].rf.out.body.list = <<>>
        /\ task[t].list = <<>> /\ task[t].sel = "null"
        /\ task[t].result.name = "PaymentError" /\ task[t].result.causeName = "TypeError"
        /\ Len(metrics) = 1 /\ metrics[1].uuid = "A" /\ metrics[1].totalTransactions = 1
        /\ metrics[1].lastUsed = T0 /\ now = T0 + 1
====
